---- MODULE Spec2Model ----
(***************************************************************************)
(* Verification model of the TLottrup/Editor repository.                   *)
(*                                                                         *)
(* Part I  : the ProseMirror editor canvas (src/components/EditorCanvas.tsx)*)
(*           with the manual pagination command, the transaction dispatch  *)
(*           and the blocks-prop synchronisation.                          *)
(* Part II : the XML projector (src/services/xmlSerializer.ts).            *)
(* Part III: the automatic pagination of src/unnamed/part_002, which       *)
(*           repaginates on a debounce timer and splits text blocks.       *)
(*                                                                         *)
(* Spec    : the canvas with its asynchronous parts (animation frame,      *)
(*           blocks-prop effect, view rebuild).                            *)
(* SpecCmd : the pagination command and the synchronous part of dispatch.  *)
(* SpecXml : the export applied to a document and a style registry.        *)
(* SpecAuto: the automatic pagination with its timer, animation frame and  *)
(*           blocks-prop effect.                                           *)
(* SpecAutoFair: SpecAuto for a one-block document, with weak fairness for *)
(*           the three scheduled callbacks.                                *)
(*                                                                         *)
(* Positions.  ProseMirror positions of top-level nodes are strictly       *)
(* increasing in the child index, and the code only uses them to delete a  *)
(* leaf (pos, pos+1), to insert before a top-level node and to compare two *)
(* of them for equality.  A position is therefore modelled by the 0-based  *)
(* index of the top-level child that starts there.                         *)
(*                                                                         *)
(* Heights.  The DOM measurement (scrollHeight of the off-screen node) is  *)
(* an external oracle.  Every content node carries the height h its        *)
(* content renders to and a virtual page measures to the sum of its nodes. *)
(***************************************************************************)
EXTENDS Integers, Sequences, FiniteSets, TLC

VARIABLES doc, blocks, layoutSettings, isUpdatingFromOutside, rafPending,
          syncPending, selectionInfo, lastOp,
          documentBlocks, styles, xmlOut,
          debounceTimeout, measurement, edited

\* the editor canvas
editorVars == <<doc, blocks, layoutSettings, isUpdatingFromOutside, rafPending,
                syncPending, selectionInfo, lastOp>>

\* the export panel: its documentBlocks and styles props and what the last
\* export produced
xmlVars == <<documentBlocks, styles, xmlOut>>

\* the automatic pagination of src/unnamed/part_002 (PaginationView): its
\* debounce timer, what the off-screen measurement reports, and whether the
\* user has made the one input of a run
autoVars == <<debounceTimeout, measurement, edited>>

vars == <<editorVars, xmlVars, autoVars>>

\* no export has run
NoXml ==
    [op |-> "none", format |-> "", front |-> <<>>, body |-> <<>>,
     back |-> <<>>, footnoteMap |-> <<>>, images |-> {}]

\* the export panel is not mounted
XmlIdle == documentBlocks = <<>> /\ styles = <<>> /\ xmlOut = NoXml

\* the canvas has no PaginationView plugin
AutoIdle ==
    debounceTimeout = FALSE /\ measurement = <<>> /\ edited = FALSE

(***************************************************************************)
(* Bounds                                                                  *)
(***************************************************************************)
\* content blocks of a document handed to the pagination command (SpecCmd)
MaxBlocks == 3
\* content blocks of the blocks prop the canvas is mounted with (Spec)
MaxCanvasBlocks == 2
\* animation-frame callbacks that may be pending at once
MaxRaf == 2

(***************************************************************************)
(* Generic sequence helpers                                                *)
(***************************************************************************)
Last(s) == s[Len(s)]

Front(s) == SubSeq(s, 1, Len(s) - 1)

\* Array.prototype.splice-like helpers on 0-based positions.
DeleteAt(s, pos) == SubSeq(s, 1, pos) \o SubSeq(s, pos + 2, Len(s))

InsertAt(s, pos, x) == SubSeq(s, 1, pos) \o <<x>> \o SubSeq(s, pos + 1, Len(s))

RECURSIVE SumHeights(_)
SumHeights(s) == IF s = <<>> THEN 0 ELSE s[1].h + SumHeights(Tail(s))

(***************************************************************************)
(* Style registry as the editor sees it: styles[k].key = k                 *)
(***************************************************************************)
EditorStyleKeys == {"body", "section_heading_1", "kapitel", "del"}

\* style.key.includes('heading') over the keys of the registry
KeyIncludesHeading(k) ==
    k \in {"section_heading_1", "section_heading_2", "abstract_heading"}

\* mutant: only a part heading forces a break
IsMajorHeadingDelOnly(k) == k \in EditorStyleKeys /\ k = "del"

\* style.key === 'del' || style.key === 'kapitel'
IsMajorHeading(k) == k \in EditorStyleKeys /\ (k = "del" \/ k = "kapitel")

IsHeadingClass(k) ==
    k \in EditorStyleKeys /\ (KeyIncludesHeading(k) \/ k = "kapitel" \/ k = "del")

(***************************************************************************)
(* Documents                                                               *)
(***************************************************************************)
PageBreak(n) == [type |-> "page_break", id |-> 0, h |-> 0, pageNumber |-> n]

IsPageBreak(n) == n.type = "page_break"

Heights == {300, 500}

\* DocumentBlock: id, style and the content (abstracted to its rendered height)
BlockOptions ==
    [style : {"body"}, h : Heights] \cup
    [style : {"section_heading_1", "kapitel", "del"}, h : {300}]

RECURSIVE BlockSeqsOfLen(_)
BlockSeqsOfLen(n) ==
    IF n = 0 THEN {<<>>}
    ELSE { Append(s, [id |-> n, style |-> o.style, h |-> o.h]) :
             s \in BlockSeqsOfLen(n - 1), o \in BlockOptions }

InitialBlocks(max) == UNION { BlockSeqsOfLen(n) : n \in 1..max }

\* const bookTemplate
BookTemplate ==
    << [id |-> 3, style |-> "del", h |-> 300],
       [id |-> 4, style |-> "kapitel", h |-> 300],
       [id |-> 5, style |-> "body", h |-> 300] >>

DateNowRandom == 999

RECURSIVE BlocksToDoc(_)
BlocksToDoc(bs) ==
    IF bs = <<>> THEN <<>>
    ELSE IF bs[1].style \notin EditorStyleKeys
         THEN BlocksToDoc(Tail(bs))
         ELSE <<[type |-> bs[1].style, id |-> bs[1].id, h |-> bs[1].h,
                 pageNumber |-> 0]>> \o BlocksToDoc(Tail(bs))

\* mutant: page breaks are serialized like any other node
RECURSIVE DocToBlocksKeepingBreaks(_)
DocToBlocksKeepingBreaks(d) ==
    IF d = <<>> THEN <<>>
    ELSE <<[id |-> IF d[1].id # 0 THEN d[1].id ELSE DateNowRandom,
            style |-> d[1].type, h |-> d[1].h]>>
             \o DocToBlocksKeepingBreaks(Tail(d))

RECURSIVE DocToBlocks(_)
DocToBlocks(d) ==
    IF d = <<>> THEN <<>>
    ELSE IF d[1].type = "page_break"
         THEN DocToBlocks(Tail(d))
         ELSE <<[id |-> IF d[1].id # 0 THEN d[1].id ELSE DateNowRandom,
                 style |-> d[1].type, h |-> d[1].h]>> \o DocToBlocks(Tail(d))

RECURSIVE stripPageBreaks(_)
stripPageBreaks(d) ==
    IF d = <<>> THEN <<>>
    ELSE IF d[1].type # "page_break"
         THEN <<d[1]>> \o stripPageBreaks(Tail(d))
         ELSE stripPageBreaks(Tail(d))

(***************************************************************************)
(* Page geometry                                                           *)
(***************************************************************************)
\* px per CSS unit, as getBoundingClientRect reports for a 1000-unit box
UnitPx(u) == IF u = "in" THEN 96 ELSE 1

convertToPx(v) == ((1000 * UnitPx(v.unit)) \div 1000) * v.num

Layouts ==
    { [paperHeight |-> ph, marginTop |-> [num |-> 50, unit |-> "px"],
       marginBottom |-> [num |-> 50, unit |-> "px"]] :
        ph \in {[num |-> 800, unit |-> "px"], [num |-> 1, unit |-> "in"]} }

contentHeightAvailable(ls) ==
    convertToPx(ls.paperHeight) - convertToPx(ls.marginTop)
        - convertToPx(ls.marginBottom)

(***************************************************************************)
(* createPaginationCommand                                                 *)
(***************************************************************************)
\* positions of the page_break nodes, in document order
RECURSIVE PositionsToRemoveFrom(_, _)
PositionsToRemoveFrom(d, i) ==
    IF i > Len(d) THEN <<>>
    ELSE (IF IsPageBreak(d[i]) THEN <<i - 1>> ELSE <<>>)
             \o PositionsToRemoveFrom(d, i + 1)

PositionsToRemove(d) == PositionsToRemoveFrom(d, 1)

\* mutant: the positions are deleted front to back, so every deletion after
\* the first uses a stale position
RECURSIVE RemoveBreaksFrontToBack(_, _)
RemoveBreaksFrontToBack(d, ps) ==
    IF ps = <<>> THEN d
    ELSE RemoveBreaksFrontToBack(DeleteAt(d, ps[1]), Tail(ps))

\* for (i = length - 1; i >= 0; i--) tr = tr.delete(p[i], p[i] + 1)
RECURSIVE RemoveBreaks(_, _)
RemoveBreaks(d, ps) ==
    IF ps = <<>> THEN d
    ELSE RemoveBreaks(DeleteAt(d, Last(ps)), Front(ps))

\* measurementNode.scrollHeight with the given nodes serialized into it
Measure(nodes) == SumHeights(nodes)

\* mutant: the candidate node is measured in isolation
VirtualPageHeightNodeOnly(currentPageContent, node) == Measure(<<node>>)

\* the virtual page [...currentPageContent, node] is appended to the
\* measurement node and its scrollHeight is read
VirtualPageHeight(currentPageContent, node) ==
    Measure(Append(currentPageContent, node))

\* one iteration of the loop over nodeInfos; i is 1-based, pos = i - 1
PaginationStep(st, clean, i, avail) ==
    LET node == clean[i]
        pos == i - 1
        isMajorHeading == IsMajorHeading(node.type)
        newTotalHeight == VirtualPageHeight(st.currentPageContent, node)
        forceBreakBefore ==
            isMajorHeading /\ i - 1 > 0 /\ Len(st.currentPageContent) > 0
    IN  IF forceBreakBefore
           \/ (newTotalHeight > avail /\ i - 1 > 0
                 /\ Len(st.currentPageContent) > 0)
        THEN LET prevNode == Last(st.currentPageContent)
                 prevPos == i - 2
                 isPrevNodeHeading == IsHeadingClass(prevNode.type)
                 widow == ~forceBreakBefore /\ isPrevNodeHeading
                 breakPos == IF widow THEN prevPos ELSE pos
                 ins == st.positionsToInsert
                 push == ins = <<>> \/ Last(ins).pos # breakPos
             IN  [ positionsToInsert |->
                       IF push
                       THEN Append(ins, [pos |-> breakPos,
                                         pageNumber |-> st.pageCounter])
                       ELSE ins,
                   pageCounter |->
                       IF push THEN st.pageCounter + 1 ELSE st.pageCounter,
                   currentPageContent |->
                       IF widow THEN <<prevNode, node>> ELSE <<node>> ]
        ELSE [st EXCEPT !.currentPageContent = Append(@, node)]

RECURSIVE PaginationLoop(_, _, _, _)
PaginationLoop(st, clean, i, avail) ==
    IF i > Len(clean) THEN st
    ELSE PaginationLoop(PaginationStep(st, clean, i, avail), clean, i + 1, avail)

\* mutant: the marker replaces the node at the break position
RECURSIVE InsertBreaksOverwriting(_, _)
InsertBreaksOverwriting(d, ins) ==
    IF ins = <<>> THEN d
    ELSE InsertBreaksOverwriting(
             InsertAt(DeleteAt(d, Last(ins).pos), Last(ins).pos,
                      PageBreak(Last(ins).pageNumber)),
             Front(ins))

\* for (i = length - 1; i >= 0; i--) tr = tr.insert(pos, page_break)
RECURSIVE InsertBreaks(_, _)
InsertBreaks(d, ins) ==
    IF ins = <<>> THEN d
    ELSE InsertBreaks(InsertAt(d, Last(ins).pos, PageBreak(Last(ins).pageNumber)),
                      Front(ins))

\* the transaction the command builds: its document and tr.docChanged
createPaginationCommand(d, ls, startPage) ==
    LET toRemove == PositionsToRemove(d)
        cleanDoc == RemoveBreaks(d, toRemove)
        st == PaginationLoop([positionsToInsert |-> <<>>,
                              pageCounter |-> startPage,
                              currentPageContent |-> <<>>],
                             cleanDoc, 1, contentHeightAvailable(ls))
    IN  [ doc |-> InsertBreaks(cleanDoc, st.positionsToInsert),
          docChanged |-> Len(toRemove) + Len(st.positionsToInsert) > 0 ]

(***************************************************************************)
(* The editor view: dispatchTransaction and the operations of the API      *)
(***************************************************************************)
RECURSIVE pageBreakCount(_)
pageBreakCount(d) ==
    IF d = <<>> THEN 0
    ELSE (IF d[1].type = "page_break" THEN 1 ELSE 0) + pageBreakCount(Tail(d))

\* mutant: the page count is the marker count
SelectionInfoOfMarkerCount(d) ==
    [ isPaginated |-> pageBreakCount(d) > 0,
      totalPages |-> IF pageBreakCount(d) > 0 THEN pageBreakCount(d) ELSE 1 ]

\* selectionInfo.isPaginated / totalPages of a transaction with docChanged
SelectionInfoOf(d) ==
    LET hasPageBreaks == pageBreakCount(d) > 0
    IN  [ isPaginated |-> hasPageBreaks,
          totalPages |-> IF hasPageBreaks THEN pageBreakCount(d) + 1 ELSE 1 ]

\* the synchronous results of dispatching a transaction with tr.docChanged:
\* the new editor state, the blocks handed to onBlocksChange and the selection
\* info handed to onSelectionChange
applyTransaction(newDoc) ==
    /\ doc' = newDoc
    /\ blocks' = DocToBlocks(newDoc)
    /\ selectionInfo' = SelectionInfoOf(newDoc)

\* dispatchTransaction of a transaction with tr.docChanged: the new state, the
\* blocks emitted through onBlocksChange (App: setBlocks, which re-renders and
\* re-runs the blocks-prop effect), the animation-frame reset that is
\* scheduled, and the selection info handed to onSelectionChange.
dispatchTransaction(newDoc) ==
    /\ rafPending < MaxRaf
    /\ applyTransaction(newDoc)
    /\ isUpdatingFromOutside' = TRUE
    /\ syncPending' = TRUE
    /\ rafPending' = rafPending + 1

NoDispatch ==
    UNCHANGED <<doc, blocks, isUpdatingFromOutside, rafPending, syncPending,
                selectionInfo>>

StartPages == {1, 2}

\* editorApi.runPagination(startPage)
runPagination(startPage) ==
    LET tr == createPaginationCommand(doc, layoutSettings, startPage)
    IN  /\ IF tr.docChanged THEN dispatchTransaction(tr.doc) ELSE NoDispatch
        /\ UNCHANGED <<xmlVars, autoVars>>
        /\ lastOp' = [name |-> "runPagination", startPage |-> startPage,
                      dispatched |-> tr.docChanged,
                      removed |-> Len(PositionsToRemove(doc)),
                      origin |-> "runPagination"]
        /\ UNCHANGED layoutSettings

\* editorApi.removePagination()
removePagination ==
    LET positionsToRemove == PositionsToRemove(doc)
    IN  /\ IF Len(positionsToRemove) = 0
           THEN NoDispatch
           ELSE dispatchTransaction(RemoveBreaks(doc, positionsToRemove))
        /\ UNCHANGED <<xmlVars, autoVars>>
        /\ lastOp' = [name |-> "removePagination", startPage |-> 0,
                      dispatched |-> Len(positionsToRemove) # 0,
                      removed |-> Len(positionsToRemove),
                      origin |-> "removePagination"]
        /\ UNCHANGED layoutSettings

\* a content edit of the user: the selected top-level node is deleted
\* (baseKeymap deleteSelection); the schema keeps doc: block+ and the model
\* keeps at least one content block
deleteNode(i) ==
    /\ i \in 1..Len(doc)
    /\ Len(stripPageBreaks(DeleteAt(doc, i - 1))) > 0
    /\ dispatchTransaction(DeleteAt(doc, i - 1))
    /\ UNCHANGED <<xmlVars, autoVars>>
    /\ lastOp' = [name |-> "edit", startPage |-> 0, dispatched |-> TRUE,
                  removed |-> 0,
                  origin |-> "edit"]
    /\ UNCHANGED layoutSettings

\* the styles the toolbar applies in the model
AppliedStyles == {"body"}

\* editorApi.applyStyle(style): setBlockType(type) without attributes on the
\* selected text block; the node is created anew with the default
\* attributes of the schema, so its id becomes 0
applyStyle(i, style) ==
    /\ i \in 1..Len(doc)
    /\ ~IsPageBreak(doc[i])
    /\ ~(doc[i].type = style /\ doc[i].id = 0)
    /\ dispatchTransaction([doc EXCEPT ![i] = [type |-> style, id |-> 0,
                                               h |-> doc[i].h,
                                               pageNumber |-> 0]])
    /\ UNCHANGED <<xmlVars, autoVars>>
    /\ lastOp' = [name |-> "edit", startPage |-> 0, dispatched |-> TRUE,
                  removed |-> 0,
                  origin |-> "edit"]
    /\ UNCHANGED layoutSettings

\* requestAnimationFrame(() => { isUpdatingFromOutside.current = false })
rafReset ==
    /\ rafPending > 0
    /\ rafPending' = rafPending - 1
    /\ isUpdatingFromOutside' = FALSE
    /\ UNCHANGED <<xmlVars, autoVars>>
    /\ lastOp' = [name |-> "raf", startPage |-> 0, dispatched |-> FALSE,
                  removed |-> 0,
                  origin |-> lastOp.origin]
    /\ UNCHANGED <<doc, blocks, layoutSettings, syncPending, selectionInfo>>

\* useEffect(..., [blocks, blocksToDoc, editorSchema]): the blocks-prop sync
syncEffect ==
    /\ syncPending
    /\ LET newDocFromProps == BlocksToDoc(blocks)
           sync == /\ ~isUpdatingFromOutside
                   /\ stripPageBreaks(newDocFromProps) # stripPageBreaks(doc)
       IN  /\ IF sync
              THEN dispatchTransaction(newDocFromProps)
              ELSE /\ syncPending' = FALSE
                   /\ UNCHANGED <<doc, blocks, isUpdatingFromOutside,
                                  rafPending, selectionInfo>>
           /\ UNCHANGED <<xmlVars, autoVars>>
           /\ lastOp' = [name |-> "sync", startPage |-> 0, dispatched |-> sync,
                  removed |-> 0,
                  origin |-> lastOp.origin]
    /\ UNCHANGED layoutSettings

\* App: setBlocks(bookTemplate); the blocks prop changes from outside
setBlocks ==
    /\ blocks # BookTemplate
    /\ blocks' = BookTemplate
    /\ syncPending' = TRUE
    /\ UNCHANGED <<xmlVars, autoVars>>
    /\ lastOp' = [name |-> "setBlocks", startPage |-> 0, dispatched |-> FALSE,
                  removed |-> 0,
                  origin |-> "setBlocks"]
    /\ UNCHANGED <<doc, layoutSettings, isUpdatingFromOutside, rafPending,
                   selectionInfo>>

\* App: the layoutSettings prop changes; the effect that owns the view
\* destroys it and creates a new one from the blocks prop, without a
\* transaction
setLayoutSettings(ls) ==
    /\ ls # layoutSettings
    /\ layoutSettings' = ls
    /\ doc' = BlocksToDoc(blocks)
    /\ UNCHANGED <<xmlVars, autoVars>>
    /\ lastOp' = [name |-> "rebuild", startPage |-> 0, dispatched |-> FALSE,
                  removed |-> 0,
                  origin |-> "rebuild"]
    /\ UNCHANGED <<blocks, isUpdatingFromOutside, rafPending, syncPending,
                   selectionInfo>>

Init ==
    /\ blocks \in InitialBlocks(MaxCanvasBlocks)
    /\ doc = BlocksToDoc(blocks)
    /\ layoutSettings \in Layouts
    /\ isUpdatingFromOutside = FALSE
    /\ rafPending = 0
    /\ syncPending = FALSE
    /\ selectionInfo = [isPaginated |-> FALSE, totalPages |-> 1]
    /\ XmlIdle
    /\ AutoIdle
    /\ lastOp = [name |-> "init", startPage |-> 0, dispatched |-> FALSE,
                  removed |-> 0,
                  origin |-> "init"]

Next ==
    \/ \E sp \in StartPages : runPagination(sp)
    \/ removePagination
    \/ \E i \in 1..(2 * MaxBlocks + 1) : deleteNode(i)
    \/ \E i \in 1..(2 * MaxBlocks + 1), style \in AppliedStyles :
          applyStyle(i, style)
    \/ rafReset
    \/ syncEffect
    \/ setBlocks
    \/ \E ls \in Layouts : setLayoutSettings(ls)

Spec == Init /\ [][Next]_vars

(***************************************************************************)
(* SpecCmd: createPaginationCommand as a function of the document, the     *)
(* geometry and the start page, with the synchronous part of the dispatch  *)
(* (new state, emitted blocks, reported selection info).  The document it  *)
(* runs on is any document earlier runs and deletions leave behind; the    *)
(* geometry may differ from run to run, as the measured heights may.       *)
(***************************************************************************)
cmdRunPagination(ls, startPage) ==
    LET tr == createPaginationCommand(doc, ls, startPage)
    IN  /\ layoutSettings' = ls
        /\ IF tr.docChanged
           THEN applyTransaction(tr.doc)
           ELSE UNCHANGED <<doc, blocks, selectionInfo>>
        /\ UNCHANGED <<xmlVars, autoVars>>
        /\ lastOp' = [name |-> "runPagination", startPage |-> startPage,
                      dispatched |-> tr.docChanged,
                      removed |-> Len(PositionsToRemove(doc)),
                      origin |-> "runPagination"]
        /\ UNCHANGED <<isUpdatingFromOutside, rafPending, syncPending>>

cmdDeleteNode(i) ==
    /\ i \in 1..Len(doc)
    /\ Len(stripPageBreaks(DeleteAt(doc, i - 1))) > 0
    /\ applyTransaction(DeleteAt(doc, i - 1))
    /\ UNCHANGED <<xmlVars, autoVars>>
    /\ lastOp' = [name |-> "edit", startPage |-> 0, dispatched |-> TRUE,
                  removed |-> 0,
                  origin |-> "edit"]
    /\ UNCHANGED <<layoutSettings, isUpdatingFromOutside, rafPending,
                   syncPending>>

InitCmd ==
    /\ blocks \in InitialBlocks(MaxBlocks)
    /\ doc = BlocksToDoc(blocks)
    /\ layoutSettings \in Layouts
    /\ isUpdatingFromOutside = FALSE
    /\ rafPending = 0
    /\ syncPending = FALSE
    /\ selectionInfo = [isPaginated |-> FALSE, totalPages |-> 1]
    /\ XmlIdle
    /\ AutoIdle
    /\ lastOp = [name |-> "init", startPage |-> 0, dispatched |-> FALSE,
                 removed |-> 0,
                 origin |-> "init"]

NextCmd ==
    \/ \E ls \in Layouts, sp \in StartPages : cmdRunPagination(ls, sp)
    \/ \E i \in 1..(2 * MaxBlocks + 1) : cmdDeleteNode(i)

SpecCmd == InitCmd /\ [][NextCmd]_vars

(***************************************************************************)
(* Part II: the XML projector (src/services/xmlSerializer.ts)              *)
(*                                                                         *)
(* Rich content.  A block's HTML content is a sequence of inline items: a  *)
(* run of plain text, or a <sup data-footnote-id data-footnote-content>    *)
(* element.  The text of block k is Text(k), so the element a block is     *)
(* projected to can be found in the tree.                                  *)
(*                                                                         *)
(* Trees.  The projector builds its trees by mutating nodes it holds on a  *)
(* stack.  A tree is a node record, a stack entry is the path (child       *)
(* indices from the root) of the node the code holds a reference to.       *)
(*                                                                         *)
(* Tables and images.  The content of a table or image block is a JSON     *)
(* text: one item that records whether JSON.parse succeeds and the fields  *)
(* of the parsed object (an absent field is absent from the record).       *)
(***************************************************************************)
\* blocks of a document handed to the export
MaxXmlBlocks == 3
\* blocks of one list run
MaxListRun == 5
MaxPayloadBlocks == 2
\* inline items of a block's rich content after its text
MaxInline == 3

\* (top as any).level ?? -1 : the level read from a node that has none
NoLevel == -1

Text(n) == [kind |-> "text", id |-> "", content |-> "", n |-> n]

Sup(id, content) == [kind |-> "sup", id |-> id, content |-> content, n |-> 0]

\* <xref ref-type="fn" rid="...">n</xref>; n = 0 when no number is stamped.
\* lt and gt are the characters that open and close its two tags in the
\* string
Xref(rid, n) ==
    [kind |-> "xref", id |-> rid, content |-> "", n |-> n,
     lt |-> "<", gt |-> ">"]

\* an element of the parsed content other than a footnote sup: its start tag
\* (kind open) and its end tag (kind close), with the characters that open
\* and close the tag in the string
Tag(kind, name) ==
    [kind |-> kind, id |-> name, content |-> "", n |-> 0,
     lt |-> "<", gt |-> ">"]

\* a character of a text node that innerHTML serialises as an entity
Char(c) == [kind |-> "char", id |-> c, content |-> "", n |-> 0]

IsTag(item, kind, name) == item.kind = kind /\ item.id = name

\* Map<string, Footnote> as the sequence of its entries in insertion order
MapHas(footnoteMap, id) ==
    \E k \in 1..Len(footnoteMap) : footnoteMap[k].id = id

\* footnoteMap.set(id, { id, content }): a present key keeps its place
MapSet(footnoteMap, id, content) ==
    IF MapHas(footnoteMap, id)
    THEN [k \in 1..Len(footnoteMap) |->
             IF footnoteMap[k].id = id
             THEN [id |-> id, content |-> content]
             ELSE footnoteMap[k]]
    ELSE Append(footnoteMap, [id |-> id, content |-> content])

\* Array.from(footnoteMap.keys()).indexOf(id)
IndexOfKey(footnoteMap, id) ==
    IF MapHas(footnoteMap, id)
    THEN (CHOOSE k \in 1..Len(footnoteMap) : footnoteMap[k].id = id) - 1
    ELSE -1

IsFootnoteSup(item) == item.kind = "sup" /\ item.id # "" /\ item.content # ""

\* footnotes.forEach: every sup with an id and a content is registered
RECURSIVE RegisterFootnotes(_, _)
RegisterFootnotes(html, footnoteMap) ==
    IF html = <<>>
    THEN footnoteMap
    ELSE RegisterFootnotes(Tail(html),
            IF IsFootnoteSup(Head(html))
            THEN MapSet(footnoteMap, Head(html).id, Head(html).content)
            ELSE footnoteMap)

\* sup.replaceWith(xref), then the placeholder is stamped with the index of
\* its id in the map, then every tag that is not bold, italic or xref is
\* stripped
StampItem(item, footnoteMap) ==
    IF IsFootnoteSup(item)
    THEN IF IndexOfKey(footnoteMap, item.id) # -1
         THEN <<Xref(item.id, IndexOfKey(footnoteMap, item.id) + 1)>>
         ELSE <<Xref(item.id, 0)>>
    ELSE IF item.kind = "sup" THEN <<>> ELSE <<item>>

RECURSIVE StampItems(_, _)
StampItems(html, footnoteMap) ==
    IF html = <<>>
    THEN <<>>
    ELSE StampItem(Head(html), footnoteMap) \o StampItems(Tail(html), footnoteMap)

\* tempDiv.innerHTML: the characters <, > and & of a text node are
\* written as entities
InnerHTML(html) ==
    [k \in 1..Len(html) |->
        IF html[k].kind = "char"
        THEN Char(CASE html[k].id = "<" -> "&lt;"
                    [] html[k].id = ">" -> "&gt;"
                    [] html[k].id = "&" -> "&amp;"
                    [] OTHER -> html[k].id)
        ELSE html[k]]

\* the index of the first end tag of the name after position i, 0 if none
NextClose(xmlContent, i, name) ==
    IF \E j \in (i + 1)..Len(xmlContent) : IsTag(xmlContent[j], "close", name)
    THEN CHOOSE j \in (i + 1)..Len(xmlContent) :
             /\ IsTag(xmlContent[j], "close", name)
             /\ \A h \in (i + 1)..(j - 1) : ~IsTag(xmlContent[h], "close", name)
    ELSE 0

\* xmlContent.replace(/<from>(.*?)<\/from>/g, '<to>$1</to>'): from position
\* i on, every start tag and the first end tag after it are renamed, and the
\* search goes on behind that end tag
RECURSIVE ReplacePairs(_, _, _, _)
ReplacePairs(xmlContent, i, from, to) ==
    CHOOSE result \in
        { IF at > Len(str)
          THEN str
          ELSE IF IsTag(str[at], "open", from) /\ j # 0
          THEN ReplacePairs([str EXCEPT ![at].id = to, ![j].id = to],
                            j + 1, from, to)
          ELSE ReplacePairs(str, at + 1, from, to) :
            str \in {xmlContent}, at \in {i},
            j \in {NextClose(xmlContent, i, from)} } : TRUE

\* the names the strip and the escape leave alone: /?(bold|italic|xref)
IsNeutralName(name) == name \in {"bold", "italic", "xref"}

HasDelimiters(item) == item.kind \in {"open", "close", "xref"}

\* xmlContent.replace(/<(?!\/?(bold|italic|xref))[^>]*>/g, '')
StripTags(xmlContent) ==
    SelectSeq(xmlContent, LAMBDA item :
        item.kind \in {"open", "close"} => IsNeutralName(item.id))

\* .replace(/&(?!(amp|lt|gt|quot|apos);)/g, '&amp;')
\* .replace(/<(?!\/?(bold|italic|xref))/g, '&lt;').replace(/>/g, '&gt;')
EscapeText(plainText) ==
    [k \in 1..Len(plainText) |->
        LET item == plainText[k]
        IN  IF HasDelimiters(item)
            THEN [item EXCEPT
                     !.lt = IF item.kind = "xref" \/ IsNeutralName(item.id)
                            THEN @
                            ELSE "&lt;",
                     !.gt = "&gt;"]
            ELSE IF item.kind = "char"
                    /\ item.id \notin {"&amp;", "&lt;", "&gt;", "&quot;",
                                        "&apos;"}
            THEN Char(CASE item.id = "&" -> "&amp;"
                        [] item.id = "<" -> "&lt;"
                        [] item.id = ">" -> "&gt;"
                        [] OTHER -> item.id)
            ELSE item]

\* the two renamings of the bold tags, then the two of the italic tags
RenameFormatting(xmlContent) ==
    CHOOSE italic \in
        { ReplacePairs(ReplacePairs(bold, 1, "em", "italic"),
                       1, "i", "italic") :
            bold \in { ReplacePairs(ReplacePairs(xmlContent, 1,
                                                 "strong", "bold"),
                                    1, "b", "bold") } } : TRUE

processInlineFormatting(html, footnoteMap) ==
    CHOOSE result \in
        { [content |-> EscapeText(plainText), footnoteMap |-> registered] :
            registered \in {RegisterFootnotes(html, footnoteMap)},
            plainText \in
                { StripTags(StampItems(italic,
                                       RegisterFootnotes(html, footnoteMap))) :
                    italic \in {RenameFormatting(InnerHTML(html))} } } : TRUE

(***************************************************************************)
(* Style registry (the styles argument of the generators)                  *)
(***************************************************************************)
StyleDef(key, tag, nestingParent, hasLevel, level, matterType) ==
    [key |-> key, jatsTag |-> tag, bitsTag |-> tag,
     nestingParentJats |-> nestingParent, nestingParentBits |-> nestingParent,
     hasLevel |-> hasLevel, level |-> level, matterType |-> matterType]

RegisteredKeys ==
    {"body", "abstract", "section_heading_1", "section_heading_2", "kapitel",
     "blockquote", "ordered_list_item", "unordered_list_item",
     "table", "image", "figure_legend"}

\* a registry; the matter types of body and abstract are what the style
\* manager was used to set them to, and figure_legend is a style created
\* there with the nesting parent fig
StyleRegistry(bodyMatter, abstractMatter) ==
    [k \in RegisteredKeys |->
        CASE k = "body" -> StyleDef(k, "p", "", FALSE, 0, bodyMatter)
          [] k = "abstract" -> StyleDef(k, "p", "", FALSE, 0, abstractMatter)
          [] k = "section_heading_1" -> StyleDef(k, "title", "", TRUE, 0, "")
          [] k = "section_heading_2" -> StyleDef(k, "title", "", TRUE, 1, "")
          [] k = "kapitel" -> StyleDef(k, "title", "", TRUE, 0, "chapter")
          [] k = "blockquote" -> StyleDef(k, "p", "disp-quote", FALSE, 0, "")
          [] k = "table" -> StyleDef(k, "table-wrap", "", FALSE, 0, "")
          [] k = "image" -> StyleDef(k, "fig", "", FALSE, 0, "")
          [] k = "figure_legend" -> StyleDef(k, "p", "fig", FALSE, 0, "")
          [] OTHER -> StyleDef(k, "p", "", FALSE, 0, "")]

Registries ==
    { StyleRegistry("", ""), StyleRegistry("", "front"),
      StyleRegistry("back", "back") }

\* StyleManager handleDelete: delete newStyles[selectedStyleKey]
WithoutStyle(registry, key) ==
    [k \in (DOMAIN registry) \ {key} |-> registry[k]]

\* the registries a list run is projected with: the unordered list style may
\* have been deleted
ListRegistries ==
    { StyleRegistry("", ""),
      WithoutStyle(StyleRegistry("", ""), "unordered_list_item") }

(***************************************************************************)
(* Trees                                                                   *)
(***************************************************************************)
\* attributes: the list-type of a list node, "" otherwise
Node(tag, level, attributes, content, hasChildren, children) ==
    [tag |-> tag, level |-> level, attributes |-> attributes,
     content |-> content, hasChildren |-> hasChildren, children |-> children]

\* mutant: the element holds its text as content and as a child as well
ElementWithTextChild(tag, content) ==
    Node(tag, NoLevel, "", content, TRUE,
         <<Node("", NoLevel, "", content, FALSE, <<>>)>>)

\* { tag, content, attributes, isHtml }: a node without a children array
Element(tag, content) == Node(tag, NoLevel, "", content, FALSE, <<>>)

RECURSIVE NodeAt(_, _)
NodeAt(node, path) ==
    IF path = <<>>
    THEN node
    ELSE NodeAt(node.children[Head(path)], Tail(path))

\* (the node at path).children.push(child)
RECURSIVE PushChild(_, _, _)
PushChild(node, path, child) ==
    IF path = <<>>
    THEN [node EXCEPT !.children = Append(@, child)]
    ELSE [node EXCEPT !.children[Head(path)] = PushChild(@, Tail(path), child)]

\* (the node at path).children.push(...nodes)
RECURSIVE PushChildren(_, _, _)
PushChildren(node, path, nodes) ==
    IF nodes = <<>>
    THEN node
    ELSE PushChildren(PushChild(node, path, Head(nodes)), path, Tail(nodes))

(***************************************************************************)
(* generateListTree                                                        *)
(***************************************************************************)
isListItem(style) ==
    style = "ordered_list_item" \/ style = "unordered_list_item"

\* the list-type attribute; the blocks of the model carry no list settings
getListAttributes(block) ==
    IF block.style = "ordered_list_item" THEN "order" ELSE "bullet"

\* while (level < parentList.level) listStack.pop()
RECURSIVE PopLists(_, _, _)
PopLists(root, listStack, level) ==
    IF level < NodeAt(root, Last(listStack)).level
    THEN PopLists(root, Front(listStack), level)
    ELSE listStack

\* the body of listBlocks.forEach
ListStep(st, block) ==
    CHOOSE result \in {
    LET level == block.level
        listStack == PopLists(st.root, st.listStack, level)
        parentPath == Last(listStack)
        parentList == NodeAt(st.root, parentPath)
        listItemNode == Node("list-item", NoLevel, "", <<>>, TRUE,
                             <<Element("p", pf.content)>>)
        newList == Node("list", level, getListAttributes(block), <<>>, TRUE,
                        <<listItemNode>>)
        n == Len(parentList.children)
        lastListItem == Append(parentPath, n)
    IN  IF level > parentList.level
        THEN IF n > 0
             THEN [root |-> PushChild(st.root, lastListItem, newList),
                   listStack |-> Append(listStack,
                       Append(lastListItem,
                              Len(NodeAt(st.root, lastListItem).children) + 1)),
                   footnoteMap |-> pf.footnoteMap]
             ELSE [root |-> PushChild(st.root, parentPath, newList),
                   listStack |-> Append(listStack, Append(parentPath, 1)),
                   footnoteMap |-> pf.footnoteMap]
        ELSE [root |-> PushChild(st.root, parentPath, listItemNode),
              listStack |-> listStack,
              footnoteMap |-> pf.footnoteMap] :
        pf \in {processInlineFormatting(block.content, st.footnoteMap)} }
        : TRUE

\* the state after a step is computed once, then the loop goes on from it
RECURSIVE ListLoop(_, _)
ListLoop(st, listBlocks) ==
    IF listBlocks = <<>>
    THEN st
    ELSE CHOOSE result \in { ListLoop(next, Tail(listBlocks)) :
                                 next \in {ListStep(st, Head(listBlocks))} } : TRUE

generateListTree(listBlocks, footnoteMap) ==
    IF listBlocks = <<>>
    THEN [trees |-> <<>>, footnoteMap |-> footnoteMap]
    ELSE LET rootList == Node("list", -1, getListAttributes(listBlocks[1]),
                              <<>>, TRUE, <<>>)
         IN  CHOOSE result \in
                 { [trees |-> <<st.root>>, footnoteMap |-> st.footnoteMap] :
                     st \in {ListLoop([root |-> rootList,
                                       listStack |-> << <<>> >>,
                                       footnoteMap |-> footnoteMap],
                                      listBlocks)} } : TRUE

(***************************************************************************)
(* buildXmlFragmentTree                                                    *)
(***************************************************************************)
TagOf(style, format) ==
    IF format = "jats" THEN style.jatsTag ELSE style.bitsTag

ParentTagOf(style, format) ==
    IF format = "jats" THEN style.nestingParentJats ELSE style.nestingParentBits

isHeading(style) ==
    /\ style.hasLevel
    /\ (KeyIncludesHeading(style.key) \/ style.key = "kapitel"
            \/ style.key = "del")

\* mutant: only sections of a greater level are closed
RECURSIVE PopSectionsOfGreaterLevel(_, _, _)
PopSectionsOfGreaterLevel(root, sectionStack, level) ==
    IF level < NodeAt(root, Last(sectionStack)).level /\ Len(sectionStack) > 1
    THEN PopSectionsOfGreaterLevel(root, Front(sectionStack), level)
    ELSE sectionStack

\* while (level <= parentLevel && sectionStack.length > 1) sectionStack.pop()
RECURSIVE PopSections(_, _, _)
PopSections(root, sectionStack, level) ==
    IF level <= NodeAt(root, Last(sectionStack)).level /\ Len(sectionStack) > 1
    THEN PopSections(root, Front(sectionStack), level)
    ELSE sectionStack

\* while (listEndIndex < blocks.length - 1 && isListItem(next.style))
RECURSIVE ListEndIndex(_, _)
ListEndIndex(bs, i) ==
    IF i < Len(bs) /\ isListItem(bs[i + 1].style)
    THEN ListEndIndex(bs, i + 1)
    ELSE i

\* escapeXml(text) of a field of the parsed object; '' when the field is
\* absent (typeof text !== 'string')
escapeXml(value, field) ==
    IF field \in DOMAIN value THEN <<value[field]>> ELSE <<>>

\* row.map(cell => ({ tag, children: [{ tag: 'p', content:
\* processInlineFormatting(cell.content, footnoteMap) }] }))
RECURSIVE MapCells(_, _, _)
MapCells(acc, row, tag) ==
    IF row = <<>>
    THEN acc
    ELSE CHOOSE result \in
             { MapCells([nodes |-> Append(acc.nodes,
                             Node(tag, NoLevel, "", <<>>, TRUE,
                                  <<Element("p", pf.content)>>)),
                         footnoteMap |-> pf.footnoteMap],
                        Tail(row), tag) :
                 pf \in {processInlineFormatting(Head(row).content,
                                                  acc.footnoteMap)} } : TRUE

\* tableData.rows.slice(1).map(row => ({ tag: 'tr', children: row.map(...) }))
RECURSIVE MapRows(_, _)
MapRows(acc, rows) ==
    IF rows = <<>>
    THEN acc
    ELSE CHOOSE result \in
             { MapRows([nodes |-> Append(acc.nodes,
                            Node("tr", NoLevel, "", <<>>, TRUE, cells.nodes)),
                        footnoteMap |-> cells.footnoteMap],
                       Tail(rows)) :
                 cells \in {MapCells([nodes |-> <<>>,
                                       footnoteMap |-> acc.footnoteMap],
                                      Head(rows), "td")} } : TRUE

\* mutant: the table node is pushed before the payload is read
TableStepPushingFirst(st, block, style, format) ==
    [st EXCEPT !.root = PushChild(@, Last(st.sectionStack),
                            Node(TagOf(style, format), NoLevel, "", <<>>, TRUE,
                                 <<>>))]

\* one iteration of the loop for a block of the style table: JSON.parse
\* throws on a text that is no JSON and tableData.rows[0] throws when rows
\* is absent; the catch logs and the loop continues
TableStep(st, block, style, format) ==
    LET text == block.content[1]
        throws == ~text.parses \/ "rows" \notin DOMAIN text.value
        tableData == text.value
        caption == Node("caption", NoLevel, "", <<>>, TRUE,
                        <<Element("p", escapeXml(tableData, "caption"))>>)
        tableNode(head, body) ==
            Node(TagOf(style, format), NoLevel, "", <<>>, TRUE,
                 << caption,
                    Node("table", NoLevel, "", <<>>, TRUE,
                         << Node("thead", NoLevel, "", <<>>, TRUE,
                                 <<Node("tr", NoLevel, "", <<>>, TRUE,
                                        head.nodes)>>),
                            Node("tbody", NoLevel, "", <<>>, TRUE,
                                 body.nodes) >>) >>)
    IN  IF throws
        THEN st
        ELSE CHOOSE result \in UNION {
                 { [st EXCEPT !.root = PushChild(@, Last(st.sectionStack),
                                                 tableNode(head, body)),
                              !.footnoteMap = body.footnoteMap] :
                     body \in
                         {MapRows([nodes |-> <<>>,
                                   footnoteMap |-> head.footnoteMap],
                                  SubSeq(tableData.rows, 2,
                                         Len(tableData.rows)))} } :
                     head \in
                         {IF tableData.rows # <<>>
                          THEN MapCells([nodes |-> <<>>,
                                         footnoteMap |-> st.footnoteMap],
                                        tableData.rows[1], "th")
                          ELSE [nodes |-> <<>>,
                                footnoteMap |-> st.footnoteMap]} } : TRUE

\* images[filename] = data: a present filename is overwritten
SetImage(images, filename, data) ==
    { e \in images : e.filename # filename }
        \cup {[filename |-> filename, data |-> data]}

\* one iteration of the loop for a block of the style image: JSON.parse
\* throws on a text that is no JSON and imageData.src.substring throws when
\* src is absent, both before the attachment is registered
ImageStep(st, block, style, format) ==
    LET text == block.content[1]
        throws == ~text.parses \/ "src" \notin DOMAIN text.value
        imageData == text.value
        extension == IF imageData.src.subtype # ""
                     THEN imageData.src.subtype
                     ELSE "png"
        filename == "image-" \o ToString(block.id) \o "." \o extension
        filepath == "Images/" \o filename
        imageNode ==
            Node(TagOf(style, format), NoLevel, "", <<>>, TRUE,
                 << Node("graphic", NoLevel, filepath, <<>>, FALSE, <<>>),
                    Node("caption", NoLevel, "", <<>>, TRUE,
                         <<Element("p", escapeXml(imageData, "caption"))>>),
                    Element("attrib", escapeXml(imageData, "source")) >>)
    IN  IF throws
        THEN st
        ELSE [st EXCEPT !.images = SetImage(@, filename, imageData.src.data),
                        !.root = PushChild(@, Last(st.sectionStack),
                                           imageNode)]

\* one iteration of the loop for a registered block that is no list item
BlockStep(st, block, style, format) ==
    CHOOSE result \in {
    LET element == Element(TagOf(style, format), pf.content)
        level == IF style.hasLevel THEN style.level ELSE 99
        top == Last(st.sectionStack)
        currentSectionOrRoot == NodeAt(st.root, top)
        parentTag == ParentTagOf(style, format)
        n == Len(currentSectionOrRoot.children)
    IN  IF isHeading(style)
        THEN LET sectionStack == PopSections(st.root, st.sectionStack, level)
                 parentPath == Last(sectionStack)
                 newSectionTag ==
                     IF format = "bits" /\ style.matterType = "chapter"
                     THEN "chapter"
                     ELSE IF parentTag # "" THEN parentTag ELSE "sec"
                 newSection == Node(newSectionTag, style.level, "", <<>>, TRUE,
                                    <<element>>)
             IN  [root |-> PushChild(st.root, parentPath, newSection),
                  sectionStack |-> Append(sectionStack,
                      Append(parentPath,
                             Len(NodeAt(st.root, parentPath).children) + 1)),
                  footnoteMap |-> pf.footnoteMap,
                  images |-> st.images]
        ELSE IF parentTag # ""
        THEN IF /\ n > 0
                /\ currentSectionOrRoot.children[n].tag = parentTag
                /\ currentSectionOrRoot.children[n].content = <<>>
                /\ currentSectionOrRoot.children[n].hasChildren
             THEN [root |-> PushChild(st.root, Append(top, n), element),
                   sectionStack |-> st.sectionStack,
                   footnoteMap |-> pf.footnoteMap,
                   images |-> st.images]
             ELSE [root |-> PushChild(st.root, top,
                               Node(parentTag, NoLevel, "", <<>>, TRUE,
                                    <<element>>)),
                   sectionStack |-> st.sectionStack,
                   footnoteMap |-> pf.footnoteMap,
                   images |-> st.images]
        ELSE [root |-> PushChild(st.root, top, element),
              sectionStack |-> st.sectionStack,
              footnoteMap |-> pf.footnoteMap,
              images |-> st.images] :
        pf \in {processInlineFormatting(block.content, st.footnoteMap)} }
        : TRUE

\* one iteration of the loop at index i: the state of the walk after it and
\* the index of the next iteration (a list run moves i to its last item)
WalkStep(st, bs, i, format, registry) ==
    IF bs[i].style \notin DOMAIN registry
    THEN [st |-> st, i |-> i + 1]
    ELSE IF isListItem(bs[i].style)
    THEN CHOOSE result \in UNION {
             { [st |-> [root |-> PushChildren(st.root, Last(st.sectionStack),
                                              listTree.trees),
                        sectionStack |-> st.sectionStack,
                        footnoteMap |-> listTree.footnoteMap,
                        images |-> st.images],
                i |-> listEndIndex + 1] :
                 listTree \in
                     {generateListTree(SubSeq(bs, i, listEndIndex),
                                       st.footnoteMap)} } :
                 listEndIndex \in {ListEndIndex(bs, i)} } : TRUE
    ELSE [st |-> IF registry[bs[i].style].key = "table"
                 THEN TableStep(st, bs[i], registry[bs[i].style], format)
                 ELSE IF registry[bs[i].style].key = "image"
                 THEN ImageStep(st, bs[i], registry[bs[i].style], format)
                 ELSE BlockStep(st, bs[i], registry[bs[i].style], format),
          i |-> i + 1]

\* for (let i = 0; i < blocks.length; i++); i is 1-based here
RECURSIVE WalkBlocks(_, _, _, _, _)
WalkBlocks(st, bs, i, format, registry) ==
    IF i > Len(bs)
    THEN st
    ELSE CHOOSE result \in
             { WalkBlocks(next.st, bs, next.i, format, registry) :
                 next \in {WalkStep(st, bs, i, format, registry)} } : TRUE

\* the sentinel root of the section stack
SentinelRoot == Node("", -1, "", <<>>, TRUE, <<>>)

\* returns root.children; the final section stack and the attachments and
\* the footnote map the walk has filled are returned with it
buildXmlFragmentTree(bs, format, images, footnoteMap, registry) ==
    CHOOSE result \in
        { [children |-> st.root.children, sectionStack |-> st.sectionStack,
           footnoteMap |-> st.footnoteMap, images |-> st.images] :
            st \in {WalkBlocks([root |-> SentinelRoot,
                                sectionStack |-> << <<>> >>,
                                footnoteMap |-> footnoteMap,
                                images |-> images],
                               bs, 1, format, registry)} } : TRUE

(***************************************************************************)
(* generateJatsXml, generateBitsXml: the trees handed to renderXml for the *)
(* front, body and back parts, and the footnote map of the fn-group        *)
(***************************************************************************)
\* styles[b.style]?.matterType
matterTypeOf(b, registry) ==
    IF b.style \in DOMAIN registry THEN registry[b.style].matterType ELSE ""

IsAbstractKey(k) == k = "abstract" \/ k = "abstract_heading"

generateJatsXml(bs, registry) ==
    LET abstractBlocks ==
            SelectSeq(bs, LAMBDA b :
                matterTypeOf(b, registry) = "front" \/ IsAbstractKey(b.style))
        bodyContentBlocks ==
            SelectSeq(bs, LAMBDA b :
                /\ ~IsAbstractKey(b.style)
                /\ matterTypeOf(b, registry) # "front"
                /\ matterTypeOf(b, registry) # "back")
        backMatterBlocks ==
            SelectSeq(bs, LAMBDA b : matterTypeOf(b, registry) = "back")
    IN  CHOOSE result \in UNION { UNION {
            { [op |-> "generateJatsXml", format |-> "jats",
               front |-> abstractTree.children, body |-> bodyTree.children,
               back |-> backTree.children,
               footnoteMap |-> backTree.footnoteMap,
               images |-> backTree.images] :
                backTree \in
                    {buildXmlFragmentTree(backMatterBlocks, "jats",
                                          bodyTree.images,
                                          bodyTree.footnoteMap, registry)} } :
                bodyTree \in
                    {buildXmlFragmentTree(bodyContentBlocks, "jats",
                                          abstractTree.images,
                                          abstractTree.footnoteMap,
                                          registry)} } :
                abstractTree \in
                    {buildXmlFragmentTree(abstractBlocks, "jats", {}, <<>>,
                                          registry)} } : TRUE

\* the groups of body blocks that are handed to buildXmlFragmentTree: a
\* block of matter type chapter starts a new group
RECURSIVE ChapterGroups(_, _, _)
ChapterGroups(bodyMatterBlocks, registry, currentChapterBlocks) ==
    LET flushed == IF currentChapterBlocks # <<>>
                   THEN <<currentChapterBlocks>>
                   ELSE <<>>
    IN  IF bodyMatterBlocks = <<>>
        THEN flushed
        ELSE IF matterTypeOf(Head(bodyMatterBlocks), registry) = "chapter"
        THEN flushed \o ChapterGroups(Tail(bodyMatterBlocks), registry,
                                       <<Head(bodyMatterBlocks)>>)
        ELSE ChapterGroups(Tail(bodyMatterBlocks), registry,
                           Append(currentChapterBlocks, Head(bodyMatterBlocks)))

\* bodyXmlContent += renderXml(buildXmlFragmentTree(group, ...)) per group
RECURSIVE WalkGroups(_, _, _)
WalkGroups(acc, groups, registry) ==
    IF groups = <<>>
    THEN acc
    ELSE CHOOSE result \in
             { WalkGroups([children |-> acc.children \o chapterTree.children,
                           footnoteMap |-> chapterTree.footnoteMap,
                           images |-> chapterTree.images],
                          Tail(groups), registry) :
                 chapterTree \in {buildXmlFragmentTree(Head(groups), "bits",
                                      acc.images, acc.footnoteMap,
                                      registry)} } : TRUE

generateBitsXml(bs, registry) ==
    LET frontMatterBlocks ==
            SelectSeq(bs, LAMBDA b : matterTypeOf(b, registry) = "front")
        bodyMatterBlocks ==
            SelectSeq(bs, LAMBDA b :
                \/ matterTypeOf(b, registry) = "body"
                \/ matterTypeOf(b, registry) = "chapter"
                \/ /\ matterTypeOf(b, registry) = ""
                   /\ ~isListItem(b.style)
                   /\ ~IsAbstractKey(b.style))
        backMatterBlocks ==
            SelectSeq(bs, LAMBDA b : matterTypeOf(b, registry) = "back")
    IN  CHOOSE result \in UNION { UNION {
            { [op |-> "generateBitsXml", format |-> "bits",
               front |-> frontMatterTree.children,
               body |-> bodyTrees.children,
               back |-> backMatterTree.children,
               footnoteMap |-> backMatterTree.footnoteMap,
               images |-> backMatterTree.images] :
                backMatterTree \in
                    {buildXmlFragmentTree(backMatterBlocks, "bits",
                                          bodyTrees.images,
                                          bodyTrees.footnoteMap, registry)} } :
                bodyTrees \in
                    {WalkGroups([children |-> <<>>,
                                 footnoteMap |-> frontMatterTree.footnoteMap,
                                 images |-> frontMatterTree.images],
                                ChapterGroups(bodyMatterBlocks, registry, <<>>),
                                registry)} } :
                frontMatterTree \in
                    {buildXmlFragmentTree(frontMatterBlocks, "bits", {}, <<>>,
                                          registry)} } : TRUE

(***************************************************************************)
(* SpecXml: the export applied to a document and a registry                *)
(***************************************************************************)
\* rich contents after the text of a block: footnote references, one of
\* them to a footnote without content
Contents ==
    { <<>>, <<Sup("a", "note")>>, <<Sup("b", "note"), Sup("a", "note")>>,
      <<Sup("c", "")>> }

XmlBlock(id, style, level, content) ==
    [id |-> id, style |-> style, level |-> level,
     content |-> <<Text(id)>> \o content]

\* style, level and rich content of the blocks of a document
XmlBlockOptions ==
    ({"body"} \X {0} \X Contents)
        \cup ({"abstract"} \X {0} \X {<<Sup("b", "note")>>})
        \cup ({"ordered_list_item"} \X {0} \X {<<Sup("a", "note")>>})
        \cup ({"section_heading_1", "section_heading_2", "kapitel",
               "blockquote"} \X {0} \X {<<>>})
        \cup ({"deleted_style"} \X {0} \X {<<Sup("b", "note")>>})

XmlDocumentsOfLen(n) ==
    { [k \in 1..n |-> XmlBlock(k, f[k][1], f[k][2], f[k][3])] :
        f \in [1..n -> XmlBlockOptions] }

XmlDocuments == UNION { XmlDocumentsOfLen(n) : n \in 1..MaxXmlBlocks }

ListLevels == {0, 1, 2}

\* a run of ordered items followed by unordered items, of any levels
ListRunsOfLen(n) ==
    { [k \in 1..n |->
          XmlBlock(k, IF k <= ordered THEN "ordered_list_item"
                                      ELSE "unordered_list_item",
                   level[k], <<>>)] :
        level \in [1..n -> ListLevels], ordered \in 0..n }

ListRuns == UNION { ListRunsOfLen(n) : n \in 1..MaxListRun }

\* the text of a table or image block: JSON.parse(block.content) yields an
\* object with the fields of value, or throws
JsonText(value) == [kind |-> "json", parses |-> TRUE, value |-> value]

BrokenJsonText == [kind |-> "json", parses |-> FALSE]

TableCell(content, colspan, isHidden) ==
    [content |-> content, colspan |-> colspan, isHidden |-> isHidden]

\* a data URL data:image/<subtype>;base64,<data>
DataUrl(subtype, data) == [subtype |-> subtype, data |-> data]

\* a 2x2 table whose cell (0,0) spans the two columns of the header row
SpanningRows(id) ==
    << << TableCell(<<Text(id)>>, 2, FALSE), TableCell(<<>>, 1, TRUE) >>,
       << TableCell(<<Text(id), Sup("b", "note")>>, 1, FALSE),
          TableCell(<<Text(id)>>, 1, FALSE) >> >>

\* the payloads of the table block with the given id: well-formed ones, one
\* without rows, one without caption, and a text that is no JSON
TablePayloads(id) ==
    { JsonText([caption |-> Text(id), rows |-> SpanningRows(id)]),
      JsonText([caption |-> Text(id), rows |-> <<>>]),
      JsonText([caption |-> Text(id)]),
      JsonText([rows |-> << <<TableCell(<<Text(id)>>, 1, FALSE)>> >>]),
      BrokenJsonText }

\* the payloads of the image block with the given id
ImagePayloads(id) ==
    { JsonText([src |-> DataUrl("jpeg", "base64-data"), caption |-> Text(id),
                source |-> Text(id)]),
      JsonText([caption |-> Text(id), source |-> Text(id)]),
      JsonText([src |-> DataUrl("", "base64-data")]),
      BrokenJsonText }

\* a table, image, body or figure legend block at position id
PayloadBlocks(id) ==
    { [id |-> id, style |-> "table", level |-> 0, content |-> <<t>>] :
        t \in TablePayloads(id) }
      \cup { [id |-> id, style |-> "image", level |-> 0, content |-> <<t>>] :
                t \in ImagePayloads(id) }
      \cup { XmlBlock(id, "body", 0, <<Sup("a", "note")>>),
              XmlBlock(id, "figure_legend", 0, <<>>) }

PayloadDocumentsOfLen(n) ==
    { d \in [1..n -> UNION { PayloadBlocks(k) : k \in 1..n }] :
        \A k \in 1..n : d[k].id = k }

PayloadDocuments ==
    UNION { PayloadDocumentsOfLen(n) : n \in 1..MaxPayloadBlocks }

\* inline markup of the editor: bold, italic, another element, the
\* characters that need escaping, a footnote
InlineItems ==
    { Tag(kind, name) : kind \in {"open", "close"},
                        name \in {"strong", "em", "span"} }
        \cup { Char(c) : c \in {"<", ">", "&"} }
        \cup { Sup("a", "note") }

\* the items are the serialisation of a tree of elements: every end tag
\* closes the innermost open element
RECURSIVE WellNested(_, _)
WellNested(items, open) ==
    \A rest \in {items}, stack \in {open} :
        IF rest = <<>>
        THEN stack = <<>>
        ELSE IF Head(rest).kind = "open"
        THEN WellNested(Tail(rest), Append(stack, Head(rest).id))
        ELSE IF Head(rest).kind = "close"
        THEN /\ stack # <<>>
             /\ Last(stack) = Head(rest).id
             /\ WellNested(Tail(rest), Front(stack))
        ELSE WellNested(Tail(rest), stack)

InlineContents ==
    UNION { { c \in [1..n -> InlineItems] : WellNested(c, <<>>) } :
              n \in 0..MaxInline }

\* one body block with rich content
InlineDocuments == { <<XmlBlock(1, "body", 0, c)>> : c \in InlineContents }

\* XmlExportPanel: the effect [documentBlocks, metadata, format, styles] runs
\* when the panel mounts and when the format changes; here with format jats
exportJats ==
    /\ xmlOut.op \in {"none", "generateBitsXml"}
    /\ xmlOut' = generateJatsXml(documentBlocks, styles)
    /\ UNCHANGED <<documentBlocks, styles>>
    /\ UNCHANGED <<editorVars, autoVars>>

\* the same effect with format bits
exportBits ==
    /\ xmlOut.op \in {"none", "generateJatsXml"}
    /\ xmlOut' = generateBitsXml(documentBlocks, styles)
    /\ UNCHANGED <<documentBlocks, styles>>
    /\ UNCHANGED <<editorVars, autoVars>>

\* one walk of buildXmlFragmentTree over the whole block sequence
projectFragment(format) ==
    /\ xmlOut.op = "none"
    /\ \E tree \in {buildXmlFragmentTree(documentBlocks, format, {}, <<>>,
                                          styles)} :
          xmlOut' = [op |-> "buildXmlFragmentTree", format |-> format,
                     front |-> <<>>, body |-> tree.children, back |-> <<>>,
                     footnoteMap |-> tree.footnoteMap, images |-> tree.images]
    /\ UNCHANGED <<documentBlocks, styles>>
    /\ UNCHANGED <<editorVars, autoVars>>

\* generateListTree applied to a run of list blocks
projectListRun ==
    /\ xmlOut.op = "none"
    /\ \A k \in 1..Len(documentBlocks) : isListItem(documentBlocks[k].style)
    /\ \E listTree \in {generateListTree(documentBlocks, <<>>)} :
          xmlOut' = [op |-> "generateListTree", format |-> "jats",
                     front |-> <<>>, body |-> listTree.trees, back |-> <<>>,
                     footnoteMap |-> listTree.footnoteMap, images |-> {}]
    /\ UNCHANGED <<documentBlocks, styles>>
    /\ UNCHANGED <<editorVars, autoVars>>

InitXml ==
    /\ \/ documentBlocks \in XmlDocuments /\ styles \in Registries
       \/ documentBlocks \in ListRuns /\ styles \in ListRegistries
       \/ documentBlocks \in PayloadDocuments /\ styles = StyleRegistry("", "")
       \/ documentBlocks \in InlineDocuments /\ styles = StyleRegistry("", "")
    /\ xmlOut = NoXml
    /\ AutoIdle
    /\ blocks = BookTemplate
    /\ doc = BlocksToDoc(blocks)
    /\ layoutSettings = CHOOSE ls \in Layouts : contentHeightAvailable(ls) > 0
    /\ isUpdatingFromOutside = FALSE
    /\ rafPending = 0
    /\ syncPending = FALSE
    /\ selectionInfo = [isPaginated |-> FALSE, totalPages |-> 1]
    /\ lastOp = [name |-> "init", startPage |-> 0, dispatched |-> FALSE,
                 removed |-> 0,
                 origin |-> "init"]

NextXml ==
    \/ exportJats
    \/ exportBits
    \/ \E format \in {"jats", "bits"} : projectFragment(format)
    \/ projectListRun

SpecXml == InitXml /\ [][NextXml]_vars

(***************************************************************************)
(* Properties of the pagination command and of the editor                  *)
(***************************************************************************)
AfterRunPagination == lastOp.name = "runPagination"

\* the pages of a document: the maximal runs of nodes between two markers or
\* a document end
RECURSIVE PagesOf(_, _)
PagesOf(d, cur) ==
    IF d = <<>> THEN <<cur>>
    ELSE IF IsPageBreak(d[1]) THEN <<cur>> \o PagesOf(Tail(d), <<>>)
         ELSE PagesOf(Tail(d), Append(cur, d[1]))

Pages(d) == PagesOf(d, <<>>)

\* the content nodes of d that lie on the page of d[j] before d[j]
RECURSIVE PageBefore(_, _)
PageBefore(d, j) ==
    IF j = 1 \/ IsPageBreak(d[j - 1]) THEN <<>>
    ELSE Append(PageBefore(d, j - 1), d[j - 1])

MarkerIndices(d) == { i \in 1..Len(d) : IsPageBreak(d[i]) }

\* C1: what createPaginationCommand produces depends only on the marker-free
\* block sequence, the geometry, the measured heights and the start page: run
\* on a document with old markers it produces what it produces on that
\* document with all markers removed, and a second run produces the same again.
C1_MarkersOfEarlierRunsIgnored ==
    [][ lastOp'.name = "runPagination" =>
          /\ doc' = createPaginationCommand(stripPageBreaks(doc), layoutSettings',
                                            lastOp'.startPage).doc
          /\ createPaginationCommand(doc', layoutSettings',
                                     lastOp'.startPage).doc = doc' ]_vars

C1_Witness ==
    /\ AfterRunPagination
    /\ lastOp.removed >= 2
    /\ lastOp.dispatched
    /\ pageBreakCount(doc) >= 1

\* C2: after createPaginationCommand no page-break marker directly follows a
\* heading-class block (stated for a positive available height).
C2_NoOrphanedHeading ==
    (AfterRunPagination /\ contentHeightAvailable(layoutSettings) > 0) =>
        \A i \in 2..Len(doc) :
            IsPageBreak(doc[i]) => ~IsHeadingClass(doc[i - 1].type)

\* C3: after createPaginationCommand every page holding two or more blocks
\* measures, as a unit, at most the available content height (stated for a
\* positive available height).
C3_PagesFit ==
    (AfterRunPagination /\ contentHeightAvailable(layoutSettings) > 0) =>
        \A k \in 1..Len(Pages(doc)) :
            Len(Pages(doc)[k]) >= 2 =>
                Measure(Pages(doc)[k]) <= contentHeightAvailable(layoutSettings)

\* C4: createPaginationCommand only adds and removes markers: the content
\* blocks of the result are the content blocks of the input, in order and
\* unchanged.
C4_MarkersPurelyAdditive ==
    [][ lastOp'.name = "runPagination" =>
          stripPageBreaks(doc') = stripPageBreaks(doc) ]_vars

C4_Witness ==
    /\ AfterRunPagination
    /\ lastOp.dispatched
    /\ pageBreakCount(doc) >= 2
    /\ Len(stripPageBreaks(doc)) = 3

NoHeadingClass(d) == \A i \in 1..Len(d) : ~IsHeadingClass(d[i].type)

\* C5: in a document without heading-class blocks a marker stands directly
\* before a block exactly when the page before it is not empty and measures,
\* together with the block, more than the available height; markers stand
\* nowhere else.  Three blocks of 300 on a page of 800 with margins 50/50 get
\* one marker, after the second block.
C5_BreakExactlyOnOverflow ==
    (AfterRunPagination /\ NoHeadingClass(doc)) =>
        LET avail == contentHeightAvailable(layoutSettings)
            clean == stripPageBreaks(doc)
        IN  /\ ~IsPageBreak(doc[1])
            /\ ~IsPageBreak(doc[Len(doc)])
            /\ \A j \in 2..Len(doc) :
                 ~IsPageBreak(doc[j]) =>
                    IF IsPageBreak(doc[j - 1])
                    THEN /\ PageBefore(doc, j - 1) # <<>>
                         /\ Measure(Append(PageBefore(doc, j - 1), doc[j])) > avail
                    ELSE Measure(Append(PageBefore(doc, j), doc[j])) <= avail
            /\ (/\ avail = 700
                /\ Len(clean) = 3
                /\ \A i \in 1..3 : clean[i].h = 300)
               => /\ doc = <<clean[1], clean[2], PageBreak(lastOp.startPage),
                             clean[3]>>
                  /\ Len(Pages(doc)) = 2

C5_Witness ==
    /\ AfterRunPagination
    /\ NoHeadingClass(doc)
    /\ contentHeightAvailable(layoutSettings) = 700
    /\ Len(doc) = 4
    /\ IsPageBreak(doc[3])
    /\ \A i \in {1, 2, 4} : doc[i].h = 300

\* C6: after runPagination(startPage) the k-th marker carries page number
\* startPage + k - 1, no two markers share a position, and the total page
\* count last handed to onSelectionChange is the number of markers plus one.
C6_SequentialPageNumbers ==
    AfterRunPagination =>
        LET ms == PositionsToRemove(doc)
        IN  /\ \A k \in 1..Len(ms) :
                 doc[ms[k] + 1].pageNumber = lastOp.startPage + k - 1
            /\ \A k \in 1..(Len(ms) - 1) : ms[k] + 1 < ms[k + 1]
            /\ selectionInfo.totalPages = Len(ms) + 1

C6_Witness ==
    /\ AfterRunPagination
    /\ lastOp.dispatched
    /\ lastOp.startPage = 2
    /\ pageBreakCount(doc) = 2
    /\ selectionInfo.totalPages = 3

\* C7: the block array emitted through onBlocksChange by any transaction
\* holds no page-break marker.
C7_EmittedBlocksHaveNoMarker ==
    lastOp.dispatched =>
        \A i \in 1..Len(blocks) : blocks[i].style # "page_break"

C7_Witness ==
    /\ lastOp.dispatched
    /\ pageBreakCount(doc) >= 1
    /\ Len(blocks) + pageBreakCount(doc) = Len(doc)

(***************************************************************************)
(* Properties of the XML projector                                         *)
(***************************************************************************)
AfterExport == xmlOut.op \in {"generateJatsXml", "generateBitsXml"}

\* the xref elements of a forest, in document order
RECURSIVE XrefsOfNode(_)
RECURSIVE XrefsOfForest(_)
XrefsOfNode(node) ==
    SelectSeq(node.content, LAMBDA item : item.kind = "xref")
        \o XrefsOfForest(node.children)

XrefsOfForest(nodes) ==
    IF nodes = <<>>
    THEN <<>>
    ELSE XrefsOfNode(Head(nodes)) \o XrefsOfForest(Tail(nodes))

\* the cross-references of the exported document: front, body, back
ExportedXrefs == XrefsOfForest(xmlOut.front \o xmlOut.body \o xmlOut.back)

\* the ids of the footnotes (sups with id and content) of a block sequence,
\* in the order of the flat sequence
RECURSIVE FlatFootnoteIds(_)
FlatFootnoteIds(bs) ==
    IF bs = <<>>
    THEN <<>>
    ELSE LET sups == SelectSeq(Head(bs).content, IsFootnoteSup)
         IN  [k \in 1..Len(sups) |-> sups[k].id] \o FlatFootnoteIds(Tail(bs))

FirstAppearance(ids, id) ==
    CHOOSE k \in 1..Len(ids) :
        ids[k] = id /\ \A j \in 1..(k - 1) : ids[j] # id

\* distinct ids carry distinct numbers, one id carries one number, and the
\* numbers in use are 1..n
FootnoteNumbersAreRanks ==
    AfterExport =>
        LET xrefs == ExportedXrefs
            ids == { xrefs[k].id : k \in 1..Len(xrefs) }
            numbers == { xrefs[k].n : k \in 1..Len(xrefs) }
        IN  /\ \A k, j \in 1..Len(xrefs) :
                 (xrefs[k].id = xrefs[j].id) <=> (xrefs[k].n = xrefs[j].n)
            /\ numbers = 1..Cardinality(ids)

\* a footnote first referenced earlier in the flat block sequence carries
\* the smaller number
FootnoteNumbersFollowInput ==
    AfterExport =>
        LET xrefs == ExportedXrefs
            flat == FlatFootnoteIds(documentBlocks)
        IN  \A k, j \in 1..Len(xrefs) :
                FirstAppearance(flat, xrefs[k].id)
                        < FirstAppearance(flat, xrefs[j].id)
                    => xrefs[k].n < xrefs[j].n

\* C8: in the XML of generateJatsXml and generateBitsXml the number stamped
\* into a footnote cross-reference is the 1-based rank of its footnote id by
\* first appearance in the flat input block sequence: distinct ids get
\* distinct numbers, the numbers are 1..n, one id gets one number, and the
\* footnote referenced first in the input gets the smaller number, whatever
\* the matter class of the blocks.
C8_FootnoteNumbersRankFirstAppearance ==
    FootnoteNumbersAreRanks /\ FootnoteNumbersFollowInput

\* every child of a list is a list-item, and a list below is a child of a
\* list-item
RECURSIVE ListShape(_)
ListShape(list) ==
    \A k \in 1..Len(list.children) :
        /\ list.children[k].tag = "list-item"
        /\ \A m \in 1..Len(list.children[k].children) :
              list.children[k].children[m].tag = "list"
                  => ListShape(list.children[k].children[m])

SubLists(item) == SelectSeq(item.children, LAMBDA c : c.tag = "list")

LevelsOf(bs) == [k \in 1..Len(bs) |-> bs[k].level]

\* C9: generateListTree returns root lists shaped list -> list-item -> list:
\* every child of a list is a list-item and every nested list is a child of
\* a list-item.  For the levels [0,0,1,1,0] the root list has exactly three
\* list-items, the first and the third without a sub-list, the second with
\* one nested list of exactly two list-items.
C9_ListItemListNesting ==
    xmlOut.op = "generateListTree" =>
        /\ \A t \in 1..Len(xmlOut.body) :
              xmlOut.body[t].tag = "list" /\ ListShape(xmlOut.body[t])
        /\ LevelsOf(documentBlocks) = <<0, 0, 1, 1, 0>> =>
              LET root == xmlOut.body[1]
              IN  /\ Len(root.children) = 3
                  /\ SubLists(root.children[1]) = <<>>
                  /\ SubLists(root.children[3]) = <<>>
                  /\ Len(SubLists(root.children[2])) = 1
                  /\ Len(SubLists(root.children[2])[1].children) = 2

AfterFragment == xmlOut.op = "buildXmlFragmentTree"

\* the walk of buildXmlFragmentTree after the first i blocks
WalkedPrefix(i) ==
    WalkBlocks([root |-> SentinelRoot, sectionStack |-> << <<>> >>,
                footnoteMap |-> <<>>, images |-> {}],
               SubSeq(documentBlocks, 1, i), 1, xmlOut.format, styles)

IsRegistered(b) == b.style \in DOMAIN styles

IsPayloadBlock(b) ==
    IsRegistered(b) /\ styles[b.style].key \in {"table", "image"}

IsImageBlock(b) == IsRegistered(b) /\ styles[b.style].key = "image"

IsHeadingBlock(b) == IsRegistered(b) /\ isHeading(styles[b.style])

\* the element a block is projected to: a leaf that starts with its text
HoldsTextOf(node, b) ==
    ~node.hasChildren /\ node.content # <<>> /\ node.content[1] = Text(b.id)

RECURSIVE Paths(_)
Paths(node) ==
    {<<>>} \cup UNION { { <<k>> \o p : p \in Paths(node.children[k]) } :
                          k \in 1..Len(node.children) }

IsSection(node) == node.tag = "sec" \/ node.tag = "chapter"

\* a section below a node of the given level has a greater level, and
\* sections lie in sections only
RECURSIVE SectionsNestStrictly(_, _, _)
SectionsNestStrictly(node, level, inSection) ==
    \A k \in 1..Len(node.children) :
        LET child == node.children[k]
        IN  IF IsSection(child)
            THEN /\ inSection
                 /\ child.level > level
                 /\ SectionsNestStrictly(child, child.level, TRUE)
            ELSE SectionsNestStrictly(child, level, FALSE)

\* what the walk does with a heading block, block i of the input
HeadingOpensSection(i) ==
    LET b == documentBlocks[i]
        level == styles[b.style].level
        before == WalkedPrefix(i - 1)
        after == WalkedPrefix(i)
        stillOpen == SelectSeq(before.sectionStack, LAMBDA p :
                         p = <<>> \/ NodeAt(before.root, p).level < level)
        parentPath == Last(stillOpen)
        section == Last(after.sectionStack)
    IN  /\ Len(stillOpen) >= 1 /\ stillOpen[1] = <<>>
        /\ after.sectionStack = Append(stillOpen, section)
        /\ Len(NodeAt(after.root, parentPath).children)
              = Len(NodeAt(before.root, parentPath).children) + 1
        /\ section = Append(parentPath,
                            Len(NodeAt(after.root, parentPath).children))
        /\ IsSection(NodeAt(after.root, section))
        /\ NodeAt(after.root, section).level = level
        /\ Len(NodeAt(after.root, section).children) = 1
        /\ HoldsTextOf(NodeAt(after.root, section).children[1], b)

\* what the walk does with a registered block that is no heading: its
\* element is the last child of the innermost open section, or lies in the
\* wrapper or list that is that last child
BlockGoesToInnermostSection(i) ==
    LET b == documentBlocks[i]
        before == WalkedPrefix(i - 1)
        after == WalkedPrefix(i)
        top == Last(before.sectionStack)
        n == Len(NodeAt(after.root, top).children)
        lastChild == NodeAt(after.root, Append(top, n))
    IN  /\ after.sectionStack = before.sectionStack
        /\ n > 0
        /\ \E p \in Paths(lastChild) : HoldsTextOf(NodeAt(lastChild, p), b)
        /\ (~isListItem(b.style)
              /\ ParentTagOf(styles[b.style], xmlOut.format) = "")
                => HoldsTextOf(lastChild, b)

\* a table or image block leaves the stack alone and adds at most its node,
\* as last child of the innermost open section
PayloadGoesToInnermostSection(i) ==
    LET before == WalkedPrefix(i - 1)
        after == WalkedPrefix(i)
        top == Last(before.sectionStack)
        prev == NodeAt(before.root, top).children
        kids == NodeAt(after.root, top).children
    IN  /\ after.sectionStack = before.sectionStack
        /\ \/ after.root = before.root
           \/ /\ Len(kids) = Len(prev) + 1
              /\ kids[Len(kids)].tag \in {"table-wrap", "fig"}
              /\ after.root = PushChild(before.root, top, kids[Len(kids)])

StylesOf(bs) == [k \in 1..Len(bs) |-> bs[k].style]

\* C10: in buildXmlFragmentTree a heading of level L closes every open
\* section of level >= L, never the sentinel root, and opens a new section
\* as the last child of the innermost section still open, the heading element
\* being its first child; every later block that is no heading goes to the
\* innermost open section.  Sections nest strictly by increasing level, and
\* [heading 0 A, body x, heading 0 B] gives two sibling sections, the first
\* holding A's heading and the paragraph, the second only B's heading.
C10_HeadingOpensSectionInInnermostOpen ==
    AfterFragment =>
        /\ xmlOut.body = WalkedPrefix(Len(documentBlocks)).root.children
        /\ \A i \in 1..Len(documentBlocks) :
              /\ Len(WalkedPrefix(i).sectionStack) >= 1
              /\ IF IsHeadingBlock(documentBlocks[i])
                 THEN HeadingOpensSection(i)
                 ELSE IF IsPayloadBlock(documentBlocks[i])
                 THEN PayloadGoesToInnermostSection(i)
                 ELSE IF IsRegistered(documentBlocks[i])
                 THEN BlockGoesToInnermostSection(i)
                 ELSE WalkedPrefix(i).sectionStack
                          = WalkedPrefix(i - 1).sectionStack
        /\ SectionsNestStrictly(
              [SentinelRoot EXCEPT !.children = xmlOut.body], -1, TRUE)
        /\ StylesOf(documentBlocks)
                = <<"section_heading_1", "body", "section_heading_1">> =>
              /\ Len(xmlOut.body) = 2
              /\ \A s \in 1..2 : IsSection(xmlOut.body[s])
                                    /\ xmlOut.body[s].level = 0
              /\ Len(xmlOut.body[1].children) = 2
              /\ HoldsTextOf(xmlOut.body[1].children[1], documentBlocks[1])
              /\ HoldsTextOf(xmlOut.body[1].children[2], documentBlocks[2])
              /\ Len(xmlOut.body[2].children) = 1
              /\ HoldsTextOf(xmlOut.body[2].children[1], documentBlocks[3])

C10_Witness ==
    /\ AfterFragment
    /\ StylesOf(documentBlocks)
          = <<"section_heading_1", "body", "section_heading_1">>
    /\ Len(xmlOut.body) = 2
    /\ xmlOut.body[1].tag = "sec" /\ xmlOut.body[2].tag = "sec"
    /\ Len(xmlOut.body[1].children) = 2
    /\ xmlOut.body[1].children[2].tag = "p"
    /\ Len(xmlOut.body[2].children) = 1

\* the block has an element in the forest
ProjectedIn(forest, b) ==
    LET root == [SentinelRoot EXCEPT !.children = forest]
    IN  \E p \in Paths(root) : HoldsTextOf(NodeAt(root, p), b)

FootnoteIdsOfBlock(b) ==
    { b.content[k].id : k \in { j \in 1..Len(b.content) :
                                   IsFootnoteSup(b.content[j]) } }

\* C11: a block whose style key is absent from the registry produces no node
\* and no footnote entry, and every other block of the sequence is still
\* projected, also when the unregistered block is a list-style block that
\* directly follows a registered list-style block.
C11_UnregisteredBlockSkipped ==
    AfterFragment =>
        \A i \in 1..Len(documentBlocks) :
            LET b == documentBlocks[i]
            IN  IF IsRegistered(b)
                THEN ProjectedIn(xmlOut.body, b)
                ELSE /\ ~ProjectedIn(xmlOut.body, b)
                     /\ \A id \in FootnoteIdsOfBlock(b) :
                           MapHas(xmlOut.footnoteMap, id) =>
                               \E j \in 1..Len(documentBlocks) :
                                   /\ IsRegistered(documentBlocks[j])
                                   /\ id \in FootnoteIdsOfBlock(
                                                 documentBlocks[j])

\* the trees of the export, front, body, back
ExportedForest == xmlOut.front \o xmlOut.body \o xmlOut.back

\* the fields of the parsed object that projection reads
FieldsRead(b) ==
    IF styles[b.style].key = "table"
    THEN {"caption", "rows"}
    ELSE {"src", "caption", "source"}

\* the fields whose absence makes projection throw
FieldsDereferenced(b) ==
    IF styles[b.style].key = "table" THEN {"rows"} ELSE {"src"}

HasFields(b, fields) ==
    b.content[1].parses /\ fields \subseteq DOMAIN b.content[1].value

NodesTagged(forest, tags) ==
    LET root == [SentinelRoot EXCEPT !.children = forest]
    IN  Cardinality({ p \in Paths(root) :
                        p # <<>> /\ NodeAt(root, p).tag \in tags })

BlocksWhere(P(_)) ==
    Cardinality({ i \in 1..Len(documentBlocks) : P(documentBlocks[i]) })

\* table-wrap and graphic nodes, and attachments, come from exactly the
\* table and image blocks whose payload has the given fields (a fig node
\* without graphic is the wrapper of a figure legend); every other block of
\* a document with table or image blocks is projected
PayloadNodesFrom(fields(_)) ==
    /\ NodesTagged(ExportedForest, {"table-wrap", "graphic"})
          = BlocksWhere(LAMBDA b : IsPayloadBlock(b) /\ HasFields(b, fields(b)))
    /\ Cardinality(xmlOut.images)
          = BlocksWhere(LAMBDA b : IsImageBlock(b) /\ HasFields(b, fields(b)))
    /\ (\E i \in 1..Len(documentBlocks) : IsPayloadBlock(documentBlocks[i]))
          => \A i \in 1..Len(documentBlocks) :
                 (IsRegistered(documentBlocks[i])
                     /\ ~IsPayloadBlock(documentBlocks[i]))
                   => ProjectedIn(ExportedForest, documentBlocks[i])

\* C12 (as amended): a table block whose content is not parseable as JSON
\* or has no rows, and an image block whose content is not parseable as JSON
\* or has no src, produces no node and registers no image attachment; every
\* other block is projected (a payload that lacks only its caption or source
\* is projected with an empty text) and the export returns.
C12_PayloadSkippedWhenProjectionThrows ==
    (AfterFragment \/ AfterExport) => PayloadNodesFrom(FieldsDereferenced)

\* C12 (as claimed): a table or image block whose content is not parseable
\* as JSON, or lacks the fields read during projection, produces no node and
\* registers no image attachment; the remaining blocks are projected and
\* the export returns.
C12_MalformedPayloadSkipped ==
    (AfterFragment \/ AfterExport) => PayloadNodesFrom(FieldsRead)

\* an export of a document with a body block, a table whose text is no JSON
\* and an image without src has projected the body block alone
C12_Witness ==
    /\ AfterExport
    /\ Len(documentBlocks) >= 2
    /\ \E i \in 1..Len(documentBlocks) :
          /\ IsPayloadBlock(documentBlocks[i])
          /\ ~documentBlocks[i].content[1].parses
    /\ \E i \in 1..Len(documentBlocks) :
          /\ documentBlocks[i].style = "body"
          /\ ProjectedIn(xmlOut.body, documentBlocks[i])
    /\ Len(xmlOut.body) = 1
    /\ xmlOut.images = {}

\* the top-level table nodes a walk has built for the table block b
TableNodesOf(b) ==
    { k \in 1..Len(xmlOut.body) :
        /\ xmlOut.body[k].tag = "table-wrap"
        /\ xmlOut.body[k].children[1].children[1].content = <<Text(b.id)>> }

\* the tr of the thead of a table node
HeaderRowOf(tableNode) == tableNode.children[2].children[1].children[1]

HasSpanningHeader(b) ==
    /\ IsRegistered(b) /\ styles[b.style].key = "table"
    /\ HasFields(b, {"caption", "rows"})
    /\ LET rows == b.content[1].value.rows
       IN  /\ Len(rows) = 2 /\ Len(rows[1]) = 2
           /\ rows[1][1].colspan = 2 /\ rows[1][2].isHidden

\* the attribute a cell element carries for a span of n columns
ColspanAttribute(n) == "colspan=" \o ToString(n)

\* C13: a cell with isHidden = true is not emitted and the colspan of a
\* spanning cell is carried on its element: a 2x2 table whose cell (0,0) has
\* colspan 2 and whose cell (0,1) is hidden yields a header row with exactly
\* one th cell, spanning two columns.
C13_HiddenCellOmittedSpanCarried ==
    AfterFragment =>
        \A i \in 1..Len(documentBlocks) :
            HasSpanningHeader(documentBlocks[i]) =>
                /\ TableNodesOf(documentBlocks[i]) # {}
                /\ \A k \in TableNodesOf(documentBlocks[i]) :
                      LET tr == HeaderRowOf(xmlOut.body[k])
                      IN  /\ Len(tr.children) = 1
                          /\ tr.children[1].tag = "th"
                          /\ tr.children[1].attributes = ColspanAttribute(2)

\* the number of items of a content that satisfy P
CountItems(content, P(_)) ==
    Cardinality({ k \in 1..Len(content) : P(content[k]) })

\* the tags that are left are those of bold, italic and xref elements, one
\* pair for each such element of the input, properly nested
NeutralTagsKept(html, content) ==
    /\ \A k \in 1..Len(content) :
          content[k].kind \in {"open", "close"} => IsNeutralName(content[k].id)
    /\ WellNested(content, <<>>)
    /\ \A kind \in {"open", "close"} :
          /\ CountItems(content, LAMBDA item : IsTag(item, kind, "bold"))
                = CountItems(html, LAMBDA item :
                      IsTag(item, kind, "strong") \/ IsTag(item, kind, "b"))
          /\ CountItems(content, LAMBDA item : IsTag(item, kind, "italic"))
                = CountItems(html, LAMBDA item :
                      IsTag(item, kind, "em") \/ IsTag(item, kind, "i"))
    /\ CountItems(content, LAMBDA item : item.kind = "xref")
          = CountItems(html, IsFootnoteSup)

\* the < that opens a kept tag is literal
TagsOpenLiteral(content) ==
    \A k \in 1..Len(content) :
        HasDelimiters(content[k]) => content[k].lt = "<"

\* the > that closes a kept tag is literal
TagsCloseLiteral(content) ==
    \A k \in 1..Len(content) :
        HasDelimiters(content[k]) => content[k].gt = ">"

\* the characters <, > and & of the text are entities
TextEscaped(html, content) ==
    /\ \A k \in 1..Len(content) :
          content[k].kind = "char" =>
              content[k].id \in {"&lt;", "&gt;", "&amp;"}
    /\ \A c \in {"<", ">", "&"} :
          CountItems(content, LAMBDA item :
              item = Char(CASE c = "<" -> "&lt;" [] c = ">" -> "&gt;"
                            [] OTHER -> "&amp;"))
            = CountItems(html, LAMBDA item : item = Char(c))

\* the elements of the tree that hold the formatted content of block b
ContentsOf(b) ==
    LET root == [SentinelRoot EXCEPT !.children = xmlOut.body]
    IN  { NodeAt(root, p).content :
            p \in { q \in Paths(root) : HoldsTextOf(NodeAt(root, q), b) } }

IsRichBlock(b) ==
    IsRegistered(b) /\ ~IsPayloadBlock(b) /\ ~isListItem(b.style)

\* everything the claim says but for the > of the kept tags
InlineFormattingButTagEnds ==
    AfterFragment =>
        \A i \in 1..Len(documentBlocks) :
            IsRichBlock(documentBlocks[i]) =>
                /\ ContentsOf(documentBlocks[i]) # {}
                /\ \A content \in ContentsOf(documentBlocks[i]) :
                      /\ NeutralTagsKept(documentBlocks[i].content, content)
                      /\ TagsOpenLiteral(content)
                      /\ TextEscaped(documentBlocks[i].content, content)

\* C14: the output of processInlineFormatting keeps every neutral bold,
\* italic and xref element as a well-formed, unescaped tag pair (its < and >
\* both literal), removes every other markup tag, and escapes every <, >
\* and & that belongs to text content.
C14_NeutralTagsKeptTextEscaped ==
    AfterFragment =>
        \A i \in 1..Len(documentBlocks) :
            IsRichBlock(documentBlocks[i]) =>
                /\ ContentsOf(documentBlocks[i]) # {}
                /\ \A content \in ContentsOf(documentBlocks[i]) :
                      /\ NeutralTagsKept(documentBlocks[i].content, content)
                      /\ TagsOpenLiteral(content)
                      /\ TagsCloseLiteral(content)
                      /\ TextEscaped(documentBlocks[i].content, content)

\* C15: when the available content height paperHeight - marginTop -
\* marginBottom is zero or negative, pagination refuses to proceed: it
\* inserts no page-break marker and leaves the document unchanged.
C15_DegenerateGeometryRefused ==
    [][ (lastOp'.name = "runPagination"
            /\ contentHeightAvailable(layoutSettings') <= 0)
          => (doc' = doc /\ pageBreakCount(doc') <= pageBreakCount(doc)) ]_vars

\* the block ids of the texts of a forest, in document order
RECURSIVE TextIdsOfNode(_)
RECURSIVE TextIdsOfForest(_)
TextIdsOfNode(node) ==
    (IF node.content # <<>> /\ node.content[1].kind = "text"
     THEN <<node.content[1].n>>
     ELSE <<>>) \o TextIdsOfForest(node.children)

TextIdsOfForest(nodes) ==
    IF nodes = <<>>
    THEN <<>>
    ELSE TextIdsOfNode(Head(nodes)) \o TextIdsOfForest(Tail(nodes))

\* how many elements of the forest hold the text of block b
Occurrences(forest, b) ==
    Cardinality({ k \in 1..Len(TextIdsOfForest(forest)) :
                    TextIdsOfForest(forest)[k] = b.id })

InInputOrder(forest) ==
    \A k \in 1..(Len(TextIdsOfForest(forest)) - 1) :
        TextIdsOfForest(forest)[k] <= TextIdsOfForest(forest)[k + 1]

\* C16: for both export formats each block with a registered style is
\* passed to exactly one of the front, body and back walks (none dropped,
\* none projected twice), and within each walk the blocks keep their input
\* order; for every registry, list-style blocks without matter class and an
\* abstract style classed as back matter included.
C16_MatterPartition ==
    AfterExport =>
        /\ \A i \in 1..Len(documentBlocks) :
              (IsRegistered(documentBlocks[i])
                  /\ ~IsPayloadBlock(documentBlocks[i]))
                => Occurrences(xmlOut.front, documentBlocks[i])
                     + Occurrences(xmlOut.body, documentBlocks[i])
                     + Occurrences(xmlOut.back, documentBlocks[i]) = 1
        /\ InInputOrder(xmlOut.front)
        /\ InInputOrder(xmlOut.body)
        /\ InInputOrder(xmlOut.back)

\* the same for the article format alone and a registry that does not class
\* the abstract style as back matter
JatsPartitionUnlessAbstractIsBack ==
    (xmlOut.op = "generateJatsXml"
        /\ ("abstract" \in DOMAIN styles => styles["abstract"].matterType # "back"))
      => C16_MatterPartition

OrderKeptInEachWalk ==
    AfterExport => /\ InInputOrder(xmlOut.front)
                   /\ InInputOrder(xmlOut.body)
                   /\ InInputOrder(xmlOut.back)

\* block i is passed to the body walks of the book format
IsBitsBodyBlock(i) ==
    LET b == documentBlocks[i]
    IN  /\ IsRegistered(b)
        /\ \/ styles[b.style].matterType \in {"body", "chapter"}
           \/ /\ styles[b.style].matterType = ""
              /\ ~isListItem(b.style)
              /\ ~IsAbstractKey(b.style)

IsChapterBlock(i) ==
    IsBitsBodyBlock(i) /\ styles[documentBlocks[i].style].matterType = "chapter"

\* the top-level chapter nodes of the body whose first child holds the text
\* of block i
ChapterNodesOf(i) ==
    { k \in 1..Len(xmlOut.body) :
        /\ xmlOut.body[k].tag = "chapter"
        /\ xmlOut.body[k].children # <<>>
        /\ HoldsTextOf(xmlOut.body[k].children[1], documentBlocks[i]) }

\* the chapter blocks before block i
ChaptersBefore(i) == { c \in 1..(i - 1) : IsChapterBlock(c) }

Max(S) == CHOOSE x \in S : \A y \in S : y <= x

\* every chapter block has exactly one chapter node, and that at top level
ChapterNodesAtTopLevel ==
    /\ \A i \in 1..Len(documentBlocks) :
          IsChapterBlock(i) => Cardinality(ChapterNodesOf(i)) = 1
    /\ NodesTagged(xmlOut.body, {"chapter"})
          = Cardinality({ i \in 1..Len(documentBlocks) : IsChapterBlock(i) })
    /\ \A k \in 1..Len(xmlOut.body) :
          xmlOut.body[k].tag = "chapter" =>
              \E i \in 1..Len(documentBlocks) :
                  IsChapterBlock(i) /\ k \in ChapterNodesOf(i)

\* a body block with text lies in the node of the last chapter block before
\* it, or outside every chapter node when there is none
BodyBlocksInTheirChapter ==
    \A i \in 1..Len(documentBlocks) :
        (IsBitsBodyBlock(i) /\ ~IsChapterBlock(i)
            /\ ~IsPayloadBlock(documentBlocks[i])) =>
          IF ChaptersBefore(i) = {}
          THEN /\ ProjectedIn(xmlOut.body, documentBlocks[i])
               /\ \A k \in 1..Len(xmlOut.body) :
                     xmlOut.body[k].tag = "chapter" =>
                         ~ProjectedIn(<<xmlOut.body[k]>>, documentBlocks[i])
          ELSE \E k \in ChapterNodesOf(Max(ChaptersBefore(i))) :
                   ProjectedIn(<<xmlOut.body[k]>>, documentBlocks[i])

AfterBits == xmlOut.op = "generateBitsXml"

ChapterNodesAtTopLevelInBits == AfterBits => ChapterNodesAtTopLevel

\* C17: in generateBitsXml each body block of matter class chapter yields
\* exactly one chapter node, a top-level child of book-body; every body block
\* after it and before the next chapter block is projected inside that
\* chapter node, and body blocks before the first chapter block are
\* projected outside any chapter node.
C17_ChapterGroups ==
    AfterBits => (ChapterNodesAtTopLevel /\ BodyBlocksInTheirChapter)

\* block i has changed the tree of the walk
Projected(i) == WalkedPrefix(i).root # WalkedPrefix(i - 1).root

\* block i is no heading, no list item, no table or image, and its style
\* declares a parent wrapper tag for the format
IsWrapped(i) ==
    LET b == documentBlocks[i]
    IN  /\ IsRichBlock(b)
        /\ ~isHeading(styles[b.style])
        /\ ParentTagOf(styles[b.style], xmlOut.format) # ""

WrapperTagOf(i) == ParentTagOf(styles[documentBlocks[i].style], xmlOut.format)

\* the last block before block i that was projected, 0 if none
LastProjectedBefore(i) ==
    IF \E j \in 1..(i - 1) : Projected(j)
    THEN Max({ j \in 1..(i - 1) : Projected(j) })
    ELSE 0

\* block i continues the run of block j
ContinuesRun(j, i) ==
    j > 0 /\ IsWrapped(j) /\ WrapperTagOf(j) = WrapperTagOf(i)

\* a wrapped block goes into the wrapper of the run it continues, which is
\* the last child of the innermost open section, and opens a new wrapper
\* there otherwise
WrappedBlockJoinsItsRun(i) ==
    LET b == documentBlocks[i]
        before == WalkedPrefix(i - 1)
        after == WalkedPrefix(i)
        top == Last(before.sectionStack)
        prev == NodeAt(before.root, top).children
        kids == NodeAt(after.root, top).children
        j == LastProjectedBefore(i)
    IN  /\ after.sectionStack = before.sectionStack
        /\ IF ContinuesRun(j, i)
           THEN /\ Len(kids) = Len(prev) /\ Len(kids) > 0
                /\ LET wrapper == kids[Len(kids)]
                       old == prev[Len(prev)]
                   IN  /\ wrapper.tag = WrapperTagOf(i)
                       /\ Len(wrapper.children) = Len(old.children) + 1
                       /\ HoldsTextOf(Last(wrapper.children), b)
                       /\ HoldsTextOf(Last(old.children), documentBlocks[j])
                       /\ after.root = PushChild(before.root,
                                            Append(top, Len(prev)),
                                            Last(wrapper.children))
           ELSE /\ Len(kids) = Len(prev) + 1
                /\ LET wrapper == kids[Len(kids)]
                   IN  /\ wrapper.tag = WrapperTagOf(i)
                       /\ Len(wrapper.children) = 1
                       /\ HoldsTextOf(wrapper.children[1], b)
                       /\ after.root = PushChild(before.root, top, wrapper)

\* C18: among the children of one section, every maximal run of consecutive
\* non-heading blocks whose styles declare the same parent wrapper tag is
\* projected into exactly one wrapper node holding the run's elements in
\* input order; two such runs separated by any other projected block get two
\* separate wrapper nodes, and a block never joins a node that is not a
\* wrapper created for that tag.
C18_WrapperPerRun ==
    AfterFragment =>
        \A i \in 1..Len(documentBlocks) :
            IsWrapped(i) => WrappedBlockJoinsItsRun(i)

\* the same for the blocks whose wrapper tag is not the tag of an image node
WrapperPerRunUnlessTagOfFigure ==
    AfterFragment =>
        \A i \in 1..Len(documentBlocks) :
            (IsWrapped(i) /\ WrapperTagOf(i) # "fig")
                => WrappedBlockJoinsItsRun(i)

\* the block a list-item was built for
BlockOfItem(item) == documentBlocks[item.children[1].content[1].n]

\* each list node's list-type is that of the style of the items it holds
ListTypeMatchesItems ==
    LET root == [SentinelRoot EXCEPT !.children = xmlOut.body]
    IN  \A p \in Paths(root) :
            LET node == NodeAt(root, p)
            IN  node.tag = "list" =>
                    \A k \in 1..Len(node.children) :
                        node.children[k].tag = "list-item" =>
                            getListAttributes(BlockOfItem(node.children[k]))
                                = node.attributes

\* the number of maximal runs of blocks of one style
StyleRuns(bs) ==
    1 + Cardinality({ k \in 1..(Len(bs) - 1) : bs[k].style # bs[k + 1].style })

IsListDocument ==
    \A k \in 1..Len(documentBlocks) :
        /\ isListItem(documentBlocks[k].style)
        /\ IsRegistered(documentBlocks[k])

\* C19: an ordered-list run immediately followed by an unordered-list run (or
\* the reverse) is projected as two independent list trees: no item of one
\* run is placed in a list opened by the other, and each list node's
\* list-type matches the style of the items it directly contains.
C19_AdjacentListRunsIndependent ==
    (AfterFragment /\ IsListDocument) =>
        /\ Len(xmlOut.body) = StyleRuns(documentBlocks)
        /\ ListTypeMatchesItems

\* the same for the runs of one list style
ListRunOfOneStyleIsOneTree ==
    (AfterFragment /\ IsListDocument /\ StyleRuns(documentBlocks) = 1) =>
        /\ Len(xmlOut.body) = 1
        /\ ListTypeMatchesItems

AfterProjection == xmlOut.op # "none"

\* the nodes of the trees the projector has returned
ProjectedNodes ==
    LET root == [SentinelRoot EXCEPT !.children = ExportedForest]
    IN  { NodeAt(root, p) : p \in Paths(root) \ {<<>>} }

HasText(node) == node.content # <<>>

HasChildNodes(node) == node.children # <<>>

\* C20 (as amended): no node of a tree built by buildXmlFragmentTree and
\* generateListTree has both inline text content and a non-empty child
\* list, for every input block sequence (a graphic node has neither), so the
\* branch of renderXml that drops the text of a node having both is never
\* taken on projector output.
C20_NeverTextAndChildren ==
    AfterProjection =>
        \A node \in ProjectedNodes : ~(HasText(node) /\ HasChildNodes(node))

\* C20 (as claimed): every node of a tree built by buildXmlFragmentTree and
\* generateListTree has inline text content or a non-empty child list but
\* never both.
C20_TextXorChildren ==
    AfterProjection =>
        \A node \in ProjectedNodes :
            /\ HasText(node) \/ HasChildNodes(node)
            /\ ~(HasText(node) /\ HasChildNodes(node))

\* a walk has built nodes with text, nodes with children and a graphic node
C20_Witness ==
    /\ AfterFragment
    /\ \E node \in ProjectedNodes : HasText(node) /\ ~HasChildNodes(node)
    /\ \E node \in ProjectedNodes : ~HasText(node) /\ HasChildNodes(node)
    /\ \E node \in ProjectedNodes :
          node.tag = "graphic" /\ ~HasText(node) /\ ~HasChildNodes(node)

\* C26: in every reachable state the isPaginated flag held by App is true
\* exactly when the editor document contains a page-break marker, and
\* totalPages is the marker count plus one; also after a change of the
\* layout settings, which rebuilds the view from the marker-free blocks.
C26_PaginatedFlagMatchesDocument == selectionInfo = SelectionInfoOf(doc)

\* every step but the rebuild of the view keeps the flag and the page count
\* in line with the document
FlagFollowsEveryTransaction ==
    [][(selectionInfo = SelectionInfoOf(doc) /\ lastOp'.name # "rebuild")
          => selectionInfo' = SelectionInfoOf(doc')]_vars

\* C27: after runPagination the blocks-prop sync effect dispatches no
\* transaction: the blocks emitted by onBlocksChange are the document without
\* its markers, so the effect, whether it runs before or after the
\* animation-frame reset, leaves the document and its markers as they are.
C27_SyncKeepsMarkers ==
    [][(lastOp'.name = "sync" /\ lastOp.origin = "runPagination"
            /\ pageBreakCount(doc) > 0)
          => (~lastOp'.dispatched /\ doc' = doc)]_vars

\* the same for a document in which every content node carries an id
EveryNodeHasId == \A i \in 1..Len(doc) : IsPageBreak(doc[i]) \/ doc[i].id # 0

SyncKeepsMarkersOfIdentifiedNodes ==
    [][(lastOp'.name = "sync" /\ lastOp.origin = "runPagination"
            /\ pageBreakCount(doc) > 0 /\ EveryNodeHasId)
          => (~lastOp'.dispatched /\ doc' = doc)]_vars

\* a content block stands before index j of the document
HasContentBefore(d, j) == \E h \in 1..(j - 1) : ~IsPageBreak(d[h])

\* C29: after createPaginationCommand every del or kapitel block that is not
\* the first block of the document is immediately preceded by a page-break
\* marker, whatever the heights; a widow-prevention step of a later
\* iteration neither removes nor displaces that marker.
C29_MajorHeadingStartsPage ==
    AfterRunPagination =>
        \A j \in 1..Len(doc) :
            (doc[j].type \in {"del", "kapitel"} /\ HasContentBefore(doc, j))
                => IsPageBreak(doc[j - 1])

\* a run in which the block after a part or chapter heading overflows the
\* page the heading has started, so that the widow prevention names the
\* position of the heading again
C29_Witness ==
    /\ AfterRunPagination
    /\ \E j \in 2..(Len(doc) - 1) :
          /\ doc[j].type \in {"del", "kapitel"}
          /\ HasContentBefore(doc, j)
          /\ IsPageBreak(doc[j - 1])
          /\ ~IsPageBreak(doc[j + 1])
          /\ doc[j + 1].type = "body"
          /\ contentHeightAvailable(layoutSettings) > 0
          /\ doc[j].h + doc[j + 1].h > contentHeightAvailable(layoutSettings)

AfterListTree == xmlOut.op = "generateListTree"

ListForest == [SentinelRoot EXCEPT !.children = xmlOut.body]

\* the path of the list-item built for the k-th block of the run
ItemPathOf(k) ==
    CHOOSE p \in Paths(ListForest) :
        /\ NodeAt(ListForest, p).tag = "list-item"
        /\ NodeAt(ListForest, p).children[1].content[1].n = documentBlocks[k].id

\* the number of list nodes above the list-item of the k-th block
ListDepthOf(k) ==
    LET p == ItemPathOf(k)
    IN  Cardinality({ n \in 1..Len(p) :
                        NodeAt(ListForest, SubSeq(p, 1, n)).tag = "list" })

DepthMonotoneInLevel ==
    \A i, j \in 1..Len(documentBlocks) :
        documentBlocks[i].level < documentBlocks[j].level
            => ListDepthOf(i) <= ListDepthOf(j)

EqualLevelsAreSiblings ==
    \A i, j \in 1..Len(documentBlocks) :
        (/\ i < j
         /\ documentBlocks[i].level = documentBlocks[j].level
         /\ \A m \in i..j : documentBlocks[m].level >= documentBlocks[i].level)
            => Front(ItemPathOf(i)) = Front(ItemPathOf(j))

\* C30: in generateListTree list depth is monotone in level: of two blocks
\* of one run the one with the smaller level is never at a greater
\* list-nesting depth, and blocks of equal level that no block of smaller
\* level separates are sibling items of one list; also for runs that start
\* above level 0 and then drop, such as [1,0].
C30_ListDepthMonotoneInLevel ==
    AfterListTree => (DepthMonotoneInLevel /\ EqualLevelsAreSiblings)

\* the same for the runs whose first block has the smallest level of the run
ListDepthMonotoneWhenFirstLevelIsLowest ==
    (AfterListTree
        /\ \A k \in 1..Len(documentBlocks) :
              documentBlocks[1].level <= documentBlocks[k].level)
      => (DepthMonotoneInLevel /\ EqualLevelsAreSiblings)

(***************************************************************************)
(* Part III: the automatic pagination of src/unnamed/part_002.             *)
(*                                                                         *)
(* A node is [type, id, text]: the text of a text block is its sequence of *)
(* characters (node.content.size = the number of characters), an atom      *)
(* (table, image) and a page_break have none.  Positions are ProseMirror   *)
(* token positions: a leaf has size 1, a text block its length plus 2.     *)
(***************************************************************************)
\* the longest text of a block the view is created with
MaxText == 4

TextChars == {"a", " "}

IsWhitespace(c) == c \in {" ", "\n"}

IsAtomType(k) == k \in {"table", "image"}

AutoPageBreak == [type |-> "page_break", id |-> 0, text |-> <<>>]

IsTextblock(node) == ~IsPageBreak(node) /\ ~IsAtomType(node.type)

\* node.nodeSize
NodeSize(node) == IF IsTextblock(node) THEN Len(node.text) + 2 ELSE 1

RECURSIVE ContentSize(_)
ContentSize(d) ==
    IF d = <<>> THEN 0 ELSE NodeSize(d[1]) + ContentSize(Tail(d))

\* the position at which the i-th child starts
PosOfChild(d, i) == ContentSize(SubSeq(d, 1, i - 1))

MaxOf(S) == CHOOSE x \in S : \A y \in S : y <= x

\* DOMParser without preserveWhitespace: value.replace(/[ \t\r\n]+/g, " ")
RECURSIVE CollapseWhitespace(_)
CollapseWhitespace(t) ==
    IF t = <<>> THEN <<>>
    ELSE (IF ~IsWhitespace(t[1]) THEN <<t[1]>>
          ELSE IF Len(t) > 1 /\ IsWhitespace(t[2]) THEN <<>>
          ELSE <<" ">>) \o CollapseWhitespace(Tail(t))

\* DOMParser.parseSlice of the inline content of a block: runs of
\* whitespace collapse to one space, the whitespace that opens the block and
\* the whitespace that closes it are dropped
parseSlice(t) ==
    LET collapsed == CollapseWhitespace(t)
        opened == IF collapsed # <<>> /\ collapsed[1] = " "
                  THEN Tail(collapsed) ELSE collapsed
    IN  IF opened # <<>> /\ Last(opened) = " " THEN Front(opened) ELSE opened

\* blocksToDoc: a block whose style has no node type is dropped
RECURSIVE autoBlocksToDoc(_, _)
autoBlocksToDoc(bs, registry) ==
    IF bs = <<>> THEN <<>>
    ELSE (IF bs[1].style \notin DOMAIN registry THEN <<>>
          ELSE IF IsAtomType(bs[1].style)
          THEN <<[type |-> bs[1].style, id |-> bs[1].id, text |-> <<>>]>>
          ELSE <<[type |-> bs[1].style, id |-> bs[1].id,
                  text |-> parseSlice(bs[1].text)]>>)
         \o autoBlocksToDoc(Tail(bs), registry)

\* docToBlocks: page breaks are skipped, the text is serialized as it is
RECURSIVE autoDocToBlocks(_)
autoDocToBlocks(d) ==
    IF d = <<>> THEN <<>>
    ELSE (IF IsPageBreak(d[1]) THEN <<>>
          ELSE <<[id |-> IF d[1].id # 0 THEN d[1].id ELSE DateNowRandom,
                  style |-> d[1].type, text |-> d[1].text]>>)
         \o autoDocToBlocks(Tail(d))

\* measureNodeFallback: offsetHeight plus margins of the node rendered
\* off-screen.  A page_break renders with display: none; a text block of
\* at most measurement.fit characters renders one line high, a longer one
\* higher than a page; an atom renders measurement.atom high.
measureNodeFallback(node, m) ==
    IF IsPageBreak(node) THEN 0
    ELSE IF IsAtomType(node.type) THEN m.atom
    ELSE IF Len(node.text) <= m.fit THEN 300 ELSE 800

\* node.copy(node.content.cut(from, to))
CopyCut(node, from, to) == [node EXCEPT !.text = SubSeq(node.text, from + 1, to)]

\* the binary search of findSplitPoint over the cut points 1..content.size
RECURSIVE BinarySearch(_, _, _, _, _, _)
BinarySearch(node, availableHeight, m, low, high, bestCharSplit) ==
    IF low > high THEN bestCharSplit
    ELSE CHOOSE result \in
           { BinarySearch(node, availableHeight, m, next[1], next[2], next[3]) :
               next \in
                 { IF mid = 0 THEN <<mid + 1, high, bestCharSplit>>
                   ELSE IF measureNodeFallback(CopyCut(node, 0, mid), m)
                              <= availableHeight
                   THEN <<mid + 1, high, mid>>
                   ELSE <<low, mid - 1, bestCharSplit>> :
                     mid \in {(low + high) \div 2} } } : TRUE

\* String.prototype.lastIndexOf (0-based, -1 when absent)
lastIndexOf(t, c) ==
    IF \E k \in 1..Len(t) : t[k] = c
    THEN MaxOf({ k \in 1..Len(t) : t[k] = c }) - 1
    ELSE -1

\* mutant: the cut is placed before the whitespace
SnapBeforeBoundary(textSlice, bestCharSplit) ==
    LET lastSpace == lastIndexOf(textSlice, " ")
        lastNewline == lastIndexOf(textSlice, "\n")
        boundary == IF lastSpace > lastNewline THEN lastSpace ELSE lastNewline
    IN  IF boundary > 0 THEN boundary ELSE bestCharSplit

\* the end of findSplitPoint: the cut is moved back to just after the last
\* whitespace of the fitting prefix, unless there is none past index 0
SnapToBoundary(textSlice, bestCharSplit) ==
    LET lastSpace == lastIndexOf(textSlice, " ")
        lastNewline == lastIndexOf(textSlice, "\n")
        boundary == IF lastSpace > lastNewline THEN lastSpace ELSE lastNewline
    IN  IF boundary > 0 THEN boundary + 1 ELSE bestCharSplit

\* mutant: every block is cut after its first character
findSplitPointAfterFirst(node, availableHeight, m) == 1

\* findSplitPoint: -1 when the node cannot be cut
findSplitPoint(node, availableHeight, m) ==
    IF ~IsTextblock(node) \/ Len(node.text) = 0 \/ availableHeight <= 5
    THEN -1
    ELSE LET bestCharSplit ==
                 BinarySearch(node, availableHeight, m, 0, Len(node.text), -1)
         IN  IF bestCharSplit <= 0 THEN -1
             ELSE SnapToBoundary(SubSeq(node.text, 1, bestCharSplit),
                                 bestCharSplit)

\* the positions of the page_break children, as descendants() reports them
MarkerPositions(d) ==
    [ k \in 1..pageBreakCount(d) |->
        PosOfChild(d, CHOOSE i \in 1..Len(d) :
                         /\ IsPageBreak(d[i])
                         /\ pageBreakCount(SubSeq(d, 1, i)) = k) ]

\* tr.delete(pos, pos + 1) on the current document of the transaction.  The
\* token at pos is a leaf (it is removed), a character (it is removed), the
\* opening token of a text block (the step re-opens the block: nothing
\* changes, but an empty block is removed whole) or its closing token
\* (nothing changes); a range that ends past the document throws.
DeleteToken(cur, pos) ==
    IF pos + 1 > ContentSize(cur) THEN [threw |-> TRUE, doc |-> cur]
    ELSE LET i == CHOOSE j \in 1..Len(cur) :
                      /\ PosOfChild(cur, j) <= pos
                      /\ pos < PosOfChild(cur, j) + NodeSize(cur[j])
             off == pos - PosOfChild(cur, i)
             node == cur[i]
         IN  [threw |-> FALSE,
              doc |->
                IF NodeSize(node) = 1 THEN DeleteAt(cur, i - 1)
                ELSE IF off = 0
                THEN (IF node.text = <<>> THEN DeleteAt(cur, i - 1) ELSE cur)
                ELSE IF off = Len(node.text) + 1 THEN cur
                ELSE [cur EXCEPT ![i].text = DeleteAt(node.text, off - 1)]]

\* Pass 1: descendants() walks the document the transaction started from
\* and every deletion is made at the position seen there, on the document
\* as the deletions before it left it
RECURSIVE DeleteAtPositions(_, _)
DeleteAtPositions(res, positions) ==
    IF positions = <<>> \/ res.threw THEN res
    ELSE CHOOSE result \in
           { DeleteAtPositions(next, Tail(positions)) :
               next \in {DeleteToken(res.doc, Head(positions))} } : TRUE

removePageBreaks(d) ==
    DeleteAtPositions([threw |-> FALSE, doc |-> d], MarkerPositions(d))

\* mutant: only the keys that include 'heading' are heading-class
isHeadingTypeByName(key, registry) ==
    /\ key \in DOMAIN registry
    /\ registry[key].hasLevel
    /\ KeyIncludesHeading(key)

\* styleInfo?.level !== undefined && (key.includes('heading') || ...)
isHeadingType(key, registry) ==
    key \in DOMAIN registry /\ isHeading(registry[key])

\* the ids of the nodes of a document
IdsOf(d) == { d[i].id : i \in 1..Len(d) }

\* newContent.push(node), with the child of cleanDoc the node comes from
\* (0 for a page break made by this pass) and the number of the part
Push(st, node, src, part) ==
    [st EXCEPT !.newContent = Append(@, node),
               !.from = Append(@, [src |-> src, part |-> part])]

\* while (true) { ... }: the remainder of a split block
RECURSIVE SplitLoop(_, _, _, _, _, _, _)
SplitLoop(st, remainder, src, part, heightPerPage, m, fuel) ==
    CHOOSE result \in
      { IF fuel = 0 THEN [broken EXCEPT !.diverged = TRUE]
        ELSE IF ~(/\ remainderHeight > heightPerPage
                  /\ nextSplitIndex > 0
                  /\ nextSplitIndex < Len(remainder.text))
        THEN [Push(broken, remainder, src, part)
                 EXCEPT !.pageContentHeight = remainderHeight]
        ELSE CHOOSE rest \in
               { SplitLoop(next[1], next[2], src, part + 1, heightPerPage, m,
                           fuel - 1) :
                   next \in
                     { << [Push(broken,
                                CopyCut(remainder, 0, nextSplitIndex),
                                src, part)
                             EXCEPT !.splits = Append(@,
                                [node |-> remainder,
                                 availableHeight |-> heightPerPage,
                                 splitIndex |-> nextSplitIndex])],
                          CopyCut(remainder, nextSplitIndex,
                                  Len(remainder.text)) >> } } : TRUE :
          broken \in {Push(st, AutoPageBreak, 0, 0)},
          remainderHeight \in {measureNodeFallback(remainder, m)},
          nextSplitIndex \in {findSplitPoint(remainder, heightPerPage, m)} } :
        TRUE

\* processNode
processNode(st, node, src, heightPerPage, m, registry) ==
    CHOOSE result \in
      { IF st.pageContentHeight + nodeHeight <= heightPerPage
        THEN [Push(st, node, src, 1)
                 EXCEPT !.pageContentHeight = @ + nodeHeight]
        ELSE IF splitIndex > 0 /\ splitIndex < Len(node.text)
        THEN CHOOSE rest \in
               { SplitLoop(next[1], next[2], src, 2, heightPerPage, m,
                           Len(node.text)) :
                   next \in
                     { << [Push(st, CopyCut(node, 0, splitIndex), src, 1)
                             EXCEPT !.splits = Append(@,
                                        [node |-> node,
                                         availableHeight |-> availableHeight,
                                         splitIndex |-> splitIndex]),
                                    !.fresh = IF demoted THEN @ + 1 ELSE @],
                          IF demoted
                          THEN [type |-> "body", id |-> st.fresh,
                                text |-> SubSeq(node.text, splitIndex + 1,
                                                Len(node.text))]
                          ELSE CopyCut(node, splitIndex, Len(node.text)) >> } } :
                 TRUE
        ELSE [Push(IF st.pageContentHeight > 0
                   THEN Push(st, AutoPageBreak, 0, 0) ELSE st, node, src, 1)
                 EXCEPT !.pageContentHeight = nodeHeight] :
          nodeHeight \in {measureNodeFallback(node, m)},
          availableHeight \in {heightPerPage - st.pageContentHeight},
          splitIndex \in
            {findSplitPoint(node, heightPerPage - st.pageContentHeight, m)},
          demoted \in {isHeadingType(node.type, registry)
                          /\ "body" \in DOMAIN registry} } : TRUE

RECURSIVE ProcessAll(_, _, _, _, _, _)
ProcessAll(st, cleanDoc, i, heightPerPage, m, registry) ==
    IF i > Len(cleanDoc) THEN st
    ELSE CHOOSE result \in
           { ProcessAll(next, cleanDoc, i + 1, heightPerPage, m, registry) :
               next \in {processNode(st, cleanDoc[i], i, heightPerPage, m,
                                     registry)} } : TRUE

\* getPixelHeightForUnit: the offsetHeight of a box of that CSS height
getPixelHeightForUnit(v) == IF convertToPx(v) > 0 THEN convertToPx(v) ELSE 0

\* contentHeightPerPage = pageHeightPx - paddingTopPx - paddingBottomPx
contentHeightPerPage(ls) ==
    getPixelHeightForUnit(ls.paperHeight) - getPixelHeightForUnit(ls.marginTop)
        - getPixelHeightForUnit(ls.marginBottom)

\* what the callback of the debounce timer computes from the document of
\* the view: whether it ran, whether Pass 1 threw, the document after
\* Pass 1 and the new content with where each of its nodes comes from
repaginate(d, ls, m, registry) ==
    CHOOSE r \in
        { [ran |-> getPixelHeightForUnit(ls.paperHeight) > 0,
           threw |-> pass1.threw,
           cleanDoc |-> pass1.doc,
           newContent |-> st.newContent,
           from |-> st.from,
           splits |-> st.splits,
           diverged |-> st.diverged] :
            pass1 \in {removePageBreaks(d)},
            st \in UNION {
               { ProcessAll([newContent |-> <<>>, from |-> <<>>,
                             pageContentHeight |-> 0,
                             fresh |-> 1 + MaxOf(IdsOf(d) \cup {0}),
                             splits |-> <<>>, diverged |-> FALSE],
                            cleanDoc, 1,
                            contentHeightPerPage(ls),
                            m, registry) } :
                 cleanDoc \in {removePageBreaks(d).doc} } } : TRUE

\* dispatchTransaction of a transaction with tr.docChanged, and the update
\* of the plugin view that follows it: the document changed, so recalculate
\* restarts the debounce timer
autoDispatch(newDoc) ==
    /\ rafPending < MaxRaf
    /\ doc' = newDoc
    /\ blocks' = autoDocToBlocks(newDoc)
    /\ isUpdatingFromOutside' = TRUE
    /\ syncPending' = TRUE
    /\ rafPending' = rafPending + 1
    /\ debounceTimeout' = TRUE

\* the callback of the 200 ms debounce timer.  The animation frame it
\* requests reports the page count to onPaginationChange, whose receiver
\* reads nothing of the state modelled here.
recalculate ==
    /\ debounceTimeout
    /\ \E r \in {repaginate(doc, layoutSettings, measurement, styles)} :
         \E dispatched \in {r.ran /\ ~r.threw /\ r.newContent # doc} :
           /\ IF dispatched
              THEN autoDispatch(r.newContent)
              ELSE /\ debounceTimeout' = FALSE
                   /\ UNCHANGED <<doc, blocks, isUpdatingFromOutside,
                                  rafPending, syncPending>>
           /\ lastOp' = [name |-> "recalculate", origin |-> "recalculate",
                         before |-> doc, dispatched |-> dispatched,
                         ran |-> r.ran, threw |-> r.threw,
                         cleanDoc |-> r.cleanDoc, newContent |-> r.newContent,
                         from |-> r.from, splits |-> r.splits,
                         diverged |-> r.diverged]
    /\ UNCHANGED <<layoutSettings, selectionInfo, measurement, edited>>
    /\ UNCHANGED xmlVars

\* useEffect(..., [blocks, blocksToDoc]): the blocks-prop effect of
\* part_002, which compares the new document with the document of the view
\* as it is, page breaks included
autoSyncEffect ==
    /\ syncPending
    /\ \E newDoc \in {autoBlocksToDoc(blocks, styles)} :
         \E sync \in {~isUpdatingFromOutside /\ newDoc # doc} :
           /\ IF sync
              THEN autoDispatch(newDoc)
              ELSE /\ syncPending' = FALSE
                   /\ UNCHANGED <<doc, blocks, isUpdatingFromOutside,
                                  rafPending, debounceTimeout>>
           /\ lastOp' = [name |-> "sync", origin |-> lastOp.origin,
                         before |-> doc, dispatched |-> sync]
    /\ UNCHANGED <<layoutSettings, selectionInfo, measurement, edited>>
    /\ UNCHANGED xmlVars

\* nothing is scheduled: no timer, no animation frame, no effect
Quiescent == ~debounceTimeout /\ rafPending = 0 /\ ~syncPending

\* the one input of the user, made while the editor is at rest: a character
\* typed at the start or at the end of a text block
typeText(i, atStart, c) ==
    /\ ~edited
    /\ Quiescent
    /\ i \in 1..Len(doc)
    /\ IsTextblock(doc[i])
    /\ autoDispatch([doc EXCEPT ![i].text =
                        IF atStart THEN <<c>> \o @ ELSE Append(@, c)])
    /\ edited' = TRUE
    /\ lastOp' = [name |-> "edit", origin |-> "edit", before |-> doc,
                  dispatched |-> TRUE]
    /\ UNCHANGED <<layoutSettings, selectionInfo, measurement>>
    /\ UNCHANGED xmlVars

\* the one input of the user, made while the editor is at rest: the
\* selection moves; the transaction has no
\* docChanged, and update() sees the new selection and calls recalculate
moveSelection ==
    /\ ~edited
    /\ Quiescent
    /\ debounceTimeout' = TRUE
    /\ edited' = TRUE
    /\ lastOp' = [name |-> "select", origin |-> "select", before |-> doc,
                  dispatched |-> TRUE]
    /\ UNCHANGED <<doc, blocks, layoutSettings, isUpdatingFromOutside,
                   rafPending, syncPending, selectionInfo, measurement>>
    /\ UNCHANGED xmlVars

RECURSIVE TextsOfLen(_)
TextsOfLen(n) ==
    IF n = 0 THEN {<<>>}
    ELSE { Append(t, c) : t \in TextsOfLen(n - 1), c \in TextChars }

\* the texts a block holds after it went through the editor once
AutoTexts ==
    { t \in UNION { TextsOfLen(n) : n \in 1..MaxText } : parseSlice(t) = t }

AutoBlockOptions ==
    [style : {"body", "kapitel"}, text : AutoTexts]
        \cup {[style |-> "image", text |-> <<>>]}

AutoFillers ==
    {[style |-> "body", text |-> <<"a">>], [style |-> "image", text |-> <<>>]}

AutoBlock(id, o) == [id |-> id, style |-> o.style, text |-> o.text]

\* the blocks prop: one block of any kind, alone or next to a short one
AutoInitialBlocks ==
    { <<AutoBlock(1, o)>> : o \in AutoBlockOptions }
      \cup { <<AutoBlock(1, f), AutoBlock(2, o)>> :
                f \in AutoFillers, o \in AutoBlockOptions }
      \cup { <<AutoBlock(1, o), AutoBlock(2, f)>> :
                f \in AutoFillers, o \in AutoBlockOptions }

HasStyle(bs, style) == \E k \in 1..Len(bs) : bs[k].style = style

\* the registry of the application, and the one the style manager leaves
\* when the body style is deleted
AutoRegistries ==
    { StyleRegistry("", ""), WithoutStyle(StyleRegistry("", ""), "body") }

AutoLayouts ==
    Layouts \cup
    { [paperHeight |-> [num |-> 0, unit |-> "px"],
       marginTop |-> [num |-> 50, unit |-> "px"],
       marginBottom |-> [num |-> 50, unit |-> "px"]] }

Measurements == [fit : 0..MaxText, atom : {300, 800}]

\* the view has been created: the constructor of PaginationView has called
\* recalculate, so the debounce timer runs
InitAuto ==
    /\ blocks \in AutoInitialBlocks
    /\ styles \in AutoRegistries
    /\ doc = autoBlocksToDoc(blocks, styles)
    /\ doc # <<>>
    /\ layoutSettings \in AutoLayouts
    /\ measurement \in Measurements
    /\ HasStyle(blocks, "image") \/ measurement.atom = 300
    /\ debounceTimeout = TRUE
    /\ edited = FALSE
    /\ isUpdatingFromOutside = FALSE
    /\ rafPending = 0
    /\ syncPending = FALSE
    /\ selectionInfo = [isPaginated |-> FALSE, totalPages |-> 1]
    /\ documentBlocks = <<>>
    /\ xmlOut = NoXml
    /\ lastOp = [name |-> "init", origin |-> "init", before |-> <<>>,
                 dispatched |-> FALSE]

NextAuto ==
    \/ recalculate
    \/ rafReset
    \/ autoSyncEffect
    \/ \E i \in 1..Len(doc), atStart \in BOOLEAN : typeText(i, atStart, " ")
    \/ moveSelection

SpecAuto == InitAuto /\ [][NextAuto]_vars

\* the views created with a single block on a page of positive height
InitAutoOneBlock ==
    /\ InitAuto
    /\ Len(blocks) = 1
    /\ contentHeightPerPage(layoutSettings) > 0
    /\ "body" \in DOMAIN styles

\* the timer, the animation frame and the effect are each run by the
\* browser once they are due
SpecAutoFair ==
    /\ InitAutoOneBlock
    /\ [][NextAuto]_vars
    /\ WF_vars(recalculate)
    /\ WF_vars(rafReset)
    /\ WF_vars(autoSyncEffect)

(***************************************************************************)
(* Claims about the automatic pagination                                   *)
(***************************************************************************)
AfterRecalculate == lastOp.name = "recalculate" /\ lastOp.ran /\ ~lastOp.threw

\* the fitting prefix the binary search of a recorded split ended with
BestCharSplitOf(s) ==
    BinarySearch(s.node, s.availableHeight, measurement, 0, Len(s.node.text),
                 -1)

\* the 1-based places of the whitespace of the fitting prefix that
\* textSlice.lastIndexOf can report with an index greater than 0
BoundariesOf(s) ==
    { k \in 2..BestCharSplitOf(s) : IsWhitespace(s.node.text[k]) }

IsHeadingClassNode(node) ==
    node.type \in DOMAIN styles /\ styles[node.type].hasLevel

\* the k-th node of the new content is a part of a block that was split
IsPartOfSplit(k) ==
    /\ lastOp.from[k].src # 0
    /\ \E j \in 1..Len(lastOp.from) :
          lastOp.from[j].src = lastOp.from[k].src /\ lastOp.from[j].part > 1

FirstPartsKeepStyle ==
    \A k \in 1..Len(lastOp.newContent) :
        (IsPartOfSplit(k) /\ lastOp.from[k].part = 1)
            => lastOp.newContent[k].type = lastOp.cleanDoc[lastOp.from[k].src].type

\* the type of every later part of a split heading-class block
LaterHeadingPartsAre(type(_)) ==
    \A k \in 1..Len(lastOp.newContent) :
        (/\ IsPartOfSplit(k)
         /\ lastOp.from[k].part > 1
         /\ IsHeadingClassNode(lastOp.cleanDoc[lastOp.from[k].src]))
            => /\ lastOp.newContent[k].type
                     = type(lastOp.cleanDoc[lastOp.from[k].src])
               /\ IsPageBreak(lastOp.newContent[k - 1])

\* C22 as stated: when recalculate splits a heading-class block, the first
\* part keeps the heading style and every later part has the body style.
C22_SplitHeadingContinuesAsBody ==
    AfterRecalculate =>
        (FirstPartsKeepStyle /\ LaterHeadingPartsAre(LAMBDA node : "body"))

\* C22: when recalculate splits a heading-class block and the schema has a
\* body node type, the first part keeps the heading style and every later
\* part, each after a page-break marker, has the body style; when the body
\* style is not in the registry every part keeps the heading style.
C22_SplitHeadingDemotedWhenBodyExists ==
    AfterRecalculate =>
        /\ FirstPartsKeepStyle
        /\ LaterHeadingPartsAre(LAMBDA node : IF "body" \in DOMAIN styles
                                              THEN "body" ELSE node.type)

\* a heading was split over three pages and its two later parts are body
C22_Witness ==
    /\ AfterRecalculate
    /\ "body" \in DOMAIN styles
    /\ \E k \in 1..Len(lastOp.newContent) :
          /\ IsPartOfSplit(k)
          /\ lastOp.from[k].part = 3
          /\ IsHeadingClassNode(lastOp.cleanDoc[lastOp.from[k].src])
          /\ lastOp.newContent[k].type = "body"

\* no cut point exists for the node on a whole page: it is not a text
\* block, it is empty, or no prefix of it fits
NoSplitPoint(node) ==
    \/ ~IsTextblock(node)
    \/ Len(node.text) = 0
    \/ \A n \in 1..Len(node.text) :
          measureNodeFallback(CopyCut(node, 0, n), measurement)
              > contentHeightPerPage(layoutSettings)

\* the nodes of the new content that share the page of the k-th node and
\* come before it
PageBeforeNode(k) ==
    { j \in 1..(k - 1) :
        \A i \in j..(k - 1) : ~IsPageBreak(lastOp.newContent[i]) }

HeightOfNewNode(k) == measureNodeFallback(lastOp.newContent[k], measurement)

RECURSIVE HeightOfNewNodes(_)
HeightOfNewNodes(S) ==
    IF S = {} THEN 0
    ELSE LET k == CHOOSE j \in S : TRUE
         IN  HeightOfNewNode(k) + HeightOfNewNodes(S \ {k})

\* C23: processNode terminates for every block: each iteration of the
\* split loop stops or strictly shortens the remainder, and a block for
\* which no split point exists is emitted whole, after a marker when the
\* page is not empty, instead of being split again.
C23_ProcessNodeTerminates ==
    AfterRecalculate =>
        /\ ~lastOp.diverged
        /\ \A k \in 1..Len(lastOp.splits) :
              /\ lastOp.splits[k].splitIndex > 0
              /\ lastOp.splits[k].splitIndex < Len(lastOp.splits[k].node.text)
        /\ \A i \in 1..Len(lastOp.cleanDoc) :
              NoSplitPoint(lastOp.cleanDoc[i]) =>
                \E k \in 1..Len(lastOp.newContent) :
                    /\ lastOp.from[k] = [src |-> i, part |-> 1]
                    /\ lastOp.newContent[k] = lastOp.cleanDoc[i]
                    /\ \A j \in 1..Len(lastOp.from) :
                          lastOp.from[j].src = i => j = k
                    /\ \/ PageBeforeNode(k) = {}
                       \/ HeightOfNewNodes(PageBeforeNode(k))
                             + HeightOfNewNode(k)
                               <= contentHeightPerPage(layoutSettings)

\* a block was cut into three parts, and a block without a split point that
\* does not fit the rest of its page stands whole right after a marker
C23_Witness ==
    /\ AfterRecalculate
    /\ \E k \in 1..Len(lastOp.from) : lastOp.from[k].part = 3
    /\ \E k \in 2..Len(lastOp.newContent) :
          /\ lastOp.from[k].src # 0
          /\ NoSplitPoint(lastOp.newContent[k])
          /\ ~IsPageBreak(lastOp.newContent[k])
          /\ lastOp.from[k - 1].src = 0
          /\ HeightOfNewNode(k) > contentHeightPerPage(layoutSettings)

\* C24: Pass 1 of recalculate removes every page_break node of the
\* document, for any number of markers, and removes nothing else: the
\* sequence that is re-paginated holds the content blocks, unchanged, and no
\* marker of an earlier pass survives into the new document.
C24_PassOneStripsAllMarkers ==
    (lastOp.name = "recalculate" /\ lastOp.ran) =>
        /\ ~lastOp.threw
        /\ lastOp.cleanDoc = stripPageBreaks(lastOp.before)
        /\ \A k \in 1..Len(lastOp.newContent) :
              IsPageBreak(lastOp.newContent[k]) => lastOp.from[k].src = 0

\* the same for documents that hold at most one marker
PassOneStripsSingleMarker ==
    (lastOp.name = "recalculate" /\ lastOp.ran
        /\ pageBreakCount(lastOp.before) <= 1) =>
        /\ ~lastOp.threw
        /\ lastOp.cleanDoc = stripPageBreaks(lastOp.before)
        /\ \A k \in 1..Len(lastOp.newContent) :
              IsPageBreak(lastOp.newContent[k]) => lastOp.from[k].src = 0

\* Pass 1 has removed a character of a block
PassOneRemovedContent ==
    /\ AfterRecalculate
    /\ stripPageBreaks(lastOp.cleanDoc) # stripPageBreaks(lastOp.before)

PassOneThrew == lastOp.name = "recalculate" /\ lastOp.ran /\ lastOp.threw

DistinctIds(d) ==
    \A i, j \in 1..Len(d) : (i # j) => d[i].id # d[j].id

\* C25: pagination preserves block identity: given input blocks with
\* pairwise distinct ids, the non-marker blocks produced by recalculate carry
\* pairwise distinct ids, each of them the id of an input block, also when a
\* block is split across pages.
C25_PaginationKeepsIdentity ==
    (AfterRecalculate /\ DistinctIds(stripPageBreaks(lastOp.before))) =>
        /\ DistinctIds(stripPageBreaks(lastOp.newContent))
        /\ IdsOf(stripPageBreaks(lastOp.newContent))
              \subseteq IdsOf(stripPageBreaks(lastOp.before))

\* the same for the passes that cut no block and start from at most one marker
IdentityKeptWithoutSplit ==
    (AfterRecalculate /\ DistinctIds(stripPageBreaks(lastOp.before))
        /\ lastOp.splits = <<>> /\ pageBreakCount(lastOp.before) <= 1) =>
        stripPageBreaks(lastOp.newContent) = stripPageBreaks(lastOp.before)

\* a split heading: its remainder carries an id no input block has
SplitHeadingGotNewId ==
    /\ AfterRecalculate
    /\ DistinctIds(stripPageBreaks(lastOp.before))
    /\ ~(IdsOf(stripPageBreaks(lastOp.newContent))
            \subseteq IdsOf(stripPageBreaks(lastOp.before)))

\* C28: with automatic pagination, after one user edit and no further
\* input the editor eventually becomes quiescent: the cycle recalculate,
\* dispatch, onBlocksChange, blocks-prop effect, view update, recalculate
\* stops after finitely many transactions, for every ordering of the timer,
\* the animation frame and the effect.
C28_EventuallyQuiescent == <>[]Quiescent

====
